---- MODULE Spec2Model ----
(***************************************************************************)
(* Model of the flutter simulation core: the script runner (Prepare, run,  *)
(* tick, emitMetrics, emitTraces), the metric generators, the gauge        *)
(* producer and the trace producer.                                        *)
(*                                                                         *)
(* Conventions.  Durations are counted in half seconds (Second == 2), so   *)
(* that offsets which are not whole seconds exist.  float64 values are     *)
(* integers; a quotient is the floor of the exact quotient.  The run's     *)
(* random generator is a deterministic sequence determined by its seed.    *)
(***************************************************************************)
EXTENDS Integers, Sequences, FiniteSets, TLC

\* ------------------------------------------------------------------ bounds
MaxActions == 3

\* --------------------------------------------------------------- constants
Second == 2
DefaultFrequency == 10 * Second
RndMod == 16
PoissonScale == 1000
KnuthLimit == 30

\* ------------------------------------------------------------------ helpers
Max2(a, b) == IF a >= b THEN a ELSE b

Min2(a, b) == IF a <= b THEN a ELSE b

Range(s) == {s[i] : i \in DOMAIN s}

\* the member of a one-element set; The({e(x) : x \in {v}}) is e(v), with v
\* computed once
The(S) == CHOOSE x \in S : TRUE

NoSpec == [k \in {} |-> 0]

\* strings.Compare on the strings the model uses, by their rank in byte order
StrRank(s) ==
  CASE s = "" -> 0
    [] s = "bogus" -> 1
    [] s = "disableMetric" -> 2
    [] s = "enableMetric" -> 3
    [] s = "g1" -> 4
    [] s = "g2" -> 5
    [] s = "ha" -> 6
    [] s = "ha_noise" -> 7
    [] s = "ha_ramp_0" -> 8
    [] s = "ha_ramp_1" -> 9
    [] s = "ha_ramp_2" -> 10
    [] s = "hb" -> 11
    [] s = "hb_noise" -> 12
    [] s = "hb_ramp_0" -> 13
    [] s = "hb_ramp_1" -> 14
    [] s = "hb_ramp_2" -> 15
    [] s = "metric" -> 16
    [] s = "metricGenerator" -> 17
    [] s = "p1" -> 18
    [] s = "p2" -> 19
    [] s = "t-a" -> 20
    [] s = "t-b" -> 21
    [] s = "t1" -> 22
    [] s = "t2" -> 23
    [] s = "traceRate" -> 24
    [] OTHER -> 25

\* ------------------------------------------------------- the random source
\* rand.New(rand.NewPCG(seed, seed)): the state after seeding
MakeRNG(seed) == seed % RndMod

\* one step of the generator: a full-period sequence over 0..RndMod-1
RndNext(r) == (5 * r + 3) % RndMod

\* r.Float64() is RndOut(r)/RndMod, in [0,1)
RndOut(r) == r

\* r.NormFloat64(), a value of the standard normal in -3..3
NormFloat64(r) == (r % 7) - 3

\* ---------------------------------------------------------------- decoding
\* mapstructure decode with ErrorUnused into a struct that already holds
\* values: keys of the input overwrite, the others are kept; an unknown key
\* is reported after the known ones have been written.
Decode(cur, is) ==
  [ok |-> DOMAIN is \subseteq DOMAIN cur,
   v  |-> [k \in DOMAIN cur |-> IF k \in DOMAIN is THEN is[k] ELSE cur[k]]]

validDirs == {"positive", "negative", "both"}

\* ---------------------------------------------------------------- constant
MetricConstantSpec == [type |-> "", value |-> 0]

NewMetricConstant(at, is) ==
  LET d == Decode(MetricConstantSpec, is)
  IN  IF ~d.ok THEN [ok |-> FALSE]
      ELSE [ok |-> TRUE, g |-> [kind |-> "constant", spec |-> d.v]]

MetricConstant_Reconfigure(m, at, is) ==
  LET d == Decode(m.spec, is)
  IN  [ok |-> d.ok, g |-> [m EXCEPT !.spec = d.v]]

MetricConstant_Emit(m, tick, r, incoming) ==
  [g |-> m, rnd |-> r, out |-> incoming + m.spec.value]

\* -------------------------------------------------------------------- ramp
MetricRampSpec ==
  [type |-> "", start |-> 0, target |-> 0, duration |-> 0,
   prestart_zero |-> FALSE, postend_zero |-> FALSE]

\* an interpolation that does not stop at the target
intrerpolate_NoEnd(start, target, startAt, now, duration, preZero, postZero) ==
  IF now - startAt <= 0 THEN (IF preZero THEN 0 ELSE start)
  ELSE start + ((target - start) * (now - startAt)) \div duration

intrerpolate(start, target, startAt, now, duration, preZero, postZero) ==
  IF duration <= 0 THEN (IF preZero THEN 0 ELSE target)
  ELSE LET elapsed == now - startAt
       IN  IF elapsed <= 0 THEN (IF preZero THEN 0 ELSE start)
           ELSE IF elapsed >= duration THEN (IF postZero THEN 0 ELSE target)
           ELSE start + ((target - start) * elapsed) \div duration

NewMetricRamp(at, is) ==
  LET d == Decode(MetricRampSpec, is)
  IN  IF ~d.ok \/ d.v.duration <= 0 THEN [ok |-> FALSE]
      ELSE [ok |-> TRUE, g |-> [kind |-> "ramp", spec |-> d.v, at |-> at]]

MetricRamp_Reconfigure(m, at, is) ==
  LET d == Decode(m.spec, is)
      current == intrerpolate(m.spec.start, m.spec.target, m.at, at,
                              m.spec.duration, m.spec.prestart_zero,
                              m.spec.postend_zero)
  IN  IF ~d.ok \/ d.v.duration <= 0 THEN [ok |-> FALSE, g |-> m]
      ELSE IF at <= m.at THEN [ok |-> TRUE, g |-> [m EXCEPT !.spec = d.v, !.at = at]]
      ELSE [ok |-> TRUE,
            g |-> [m EXCEPT !.spec = [d.v EXCEPT !.start = current], !.at = at]]

MetricRamp_Emit(m, tick, r, value) ==
  [g |-> m, rnd |-> r,
   out |-> intrerpolate(m.spec.start, m.spec.target, m.at, tick, m.spec.duration,
                        m.spec.prestart_zero, m.spec.postend_zero) + value]

\* ------------------------------------------------------------- random walk
\* elasticity is a percentage
MetricRandomWalkSpec ==
  [type |-> "", target |-> 0, elasticity |-> 0, stepSize |-> 0, variation |-> 0]

Clamp(v, lo, hi) == IF v < lo THEN lo ELSE IF v > hi THEN hi ELSE v

NewMetricRandomWalk(at, is) ==
  LET d == Decode(MetricRandomWalkSpec, is)
  IN  IF ~d.ok \/ d.v.stepSize <= 0 THEN [ok |-> FALSE]
      ELSE [ok |-> TRUE,
            g |-> [kind |-> "randomWalk", spec |-> d.v, current |-> d.v.target,
                   min |-> d.v.target - d.v.variation,
                   max |-> d.v.target + d.v.variation]]

MetricRandomWalk_Reconfigure(m, at, is) ==
  LET d == Decode(m.spec, is)
      m1 == [m EXCEPT !.spec = d.v]
      lo == d.v.target - d.v.variation
      hi == d.v.target + d.v.variation
  IN  IF ~d.ok \/ d.v.stepSize <= 0 THEN [ok |-> FALSE, g |-> m1]
      ELSE [ok |-> TRUE,
            g |-> [m1 EXCEPT !.current = Clamp(d.v.target, lo, hi),
                             !.min = lo, !.max = hi]]

\* an Emit that leaves the walk where the step took it
MetricRandomWalk_Emit_NoClamp(m, tick, r, incoming) ==
  LET noise == ((2 * RndOut(r) - RndMod) * m.spec.stepSize) \div RndMod
      pull  == (m.spec.elasticity * (m.spec.target - m.current)) \div 100
      cur   == m.current + pull + noise
  IN  [g |-> [m EXCEPT !.current = cur], rnd |-> RndNext(r), out |-> incoming + cur]

MetricRandomWalk_Emit(m, tick, r, incoming) ==
  LET noise == ((2 * RndOut(r) - RndMod) * m.spec.stepSize) \div RndMod
      pull  == (m.spec.elasticity * (m.spec.target - m.current)) \div 100
      cur   == Clamp(m.current + pull + noise, m.min, m.max)
  IN  [g |-> [m EXCEPT !.current = cur], rnd |-> RndNext(r), out |-> incoming + cur]

\* ------------------------------------------------------------ normal noise
MetricNormalNoiseSpec ==
  [type |-> "", target |-> 0, stdDev |-> -1, variation |-> 0, direction |-> "both"]

calcStdDev(desired, variation) == IF desired < 0 THEN variation \div 3 ELSE desired

NewMetricNormalNoise(at, is) ==
  LET d == Decode(MetricNormalNoiseSpec, is)
  IN  IF ~d.ok \/ d.v.variation < 0 \/ d.v.direction \notin validDirs
      THEN [ok |-> FALSE]
      ELSE [ok |-> TRUE,
            g |-> [kind |-> "normalNoise", spec |-> d.v,
                   stdDev |-> calcStdDev(d.v.stdDev, d.v.variation)]]

MetricNormalNoise_Reconfigure(m, at, is) ==
  LET d == Decode(m.spec, is)
      m1 == [m EXCEPT !.spec = d.v]
  IN  IF ~d.ok \/ d.v.variation < 0 \/ d.v.direction \notin validDirs
      THEN [ok |-> FALSE, g |-> m1]
      ELSE [ok |-> TRUE,
            g |-> [m1 EXCEPT !.stdDev = calcStdDev(d.v.stdDev, d.v.variation)]]

\* a draw that is taken whatever its sign
rejectNormal_FirstDraw(r, direction, stdDev) ==
  [noise |-> NormFloat64(r) * stdDev, rnd |-> RndNext(r)]

RECURSIVE rejectNormal(_, _, _)
\* the sign-rejection loop of getNormalNoise
rejectNormal(r, direction, stdDev) ==
  LET noise == NormFloat64(r) * stdDev
  IN  IF (direction = "positive" /\ noise >= 0) \/ (direction = "negative" /\ noise <= 0)
      THEN [noise |-> noise, rnd |-> RndNext(r)]
      ELSE rejectNormal(RndNext(r), direction, stdDev)

getNormalNoise(r, spec, stdDev) ==
  IF spec.direction = "both" THEN [noise |-> NormFloat64(r) * stdDev, rnd |-> RndNext(r)]
  ELSE IF stdDev <= 0 THEN [noise |-> 0, rnd |-> r]
  ELSE rejectNormal(r, spec.direction, stdDev)

getNormalSample(r, spec, stdDev) ==
  LET n == getNormalNoise(r, spec, stdDev)
  IN  [sample |-> Clamp(spec.target + n.noise, spec.target - spec.variation,
                        spec.target + spec.variation),
       rnd |-> n.rnd]

MetricNormalNoise_Emit(m, tick, r, incoming) ==
  LET s == getNormalSample(r, m.spec, m.stdDev)
  IN  [g |-> m, rnd |-> s.rnd, out |-> incoming + s.sample]

\* ----------------------------------------------------------- Poisson noise
MetricPoissonNoiseSpec ==
  [type |-> "", target |-> 0, variation |-> 0, direction |-> "positive"]

\* math.Exp(-lambda), scaled by PoissonScale
ExpNeg(lambda) ==
  CASE lambda = 1 -> 367
    [] lambda = 2 -> 135
    [] lambda = 3 -> 49
    [] lambda = 4 -> 18
    [] lambda = 5 -> 6
    [] lambda = 6 -> 2
    [] OTHER -> 0

ISqrt(n) == CHOOSE s \in 0..n : s * s <= n /\ (s + 1) * (s + 1) > n

RECURSIVE knuthLoop(_, _, _, _)
\* for p > L { k++; p *= r.Float64() }
knuthLoop(r, L, k, p) ==
  IF p > L THEN knuthLoop(RndNext(r), L, k + 1, (p * RndOut(r)) \div RndMod)
  ELSE [sample |-> k - 1, rnd |-> r]

samplePoisson(lambda, r) ==
  IF lambda <= 0 THEN [sample |-> 0, rnd |-> r]
  ELSE IF lambda < KnuthLimit THEN knuthLoop(r, ExpNeg(lambda), 0, PoissonScale)
  ELSE [sample |-> NormFloat64(r) * ISqrt(lambda) + lambda, rnd |-> RndNext(r)]

NewMetricPoissonNoise(at, is) ==
  LET d == Decode(MetricPoissonNoiseSpec, is)
  IN  IF ~d.ok \/ d.v.variation < 0 \/ d.v.direction \notin validDirs
      THEN [ok |-> FALSE]
      ELSE [ok |-> TRUE, g |-> [kind |-> "poissonNoise", spec |-> d.v]]

MetricPoissonNoise_Reconfigure(m, at, is) ==
  LET d == Decode(m.spec, is)
  IN  [ok |-> d.ok /\ d.v.variation >= 0 /\ d.v.direction \in validDirs,
       g  |-> [m EXCEPT !.spec = d.v]]

\* the incoming value is not used
MetricPoissonNoise_Emit(m, tick, r, incoming) ==
  LET s == samplePoisson(m.spec.target, r)
      low == Max2(m.spec.target - m.spec.variation, 0)
      high == m.spec.target + m.spec.variation
      c == IF s.sample < low THEN low ELSE IF s.sample > high THEN high ELSE s.sample
      v == CASE m.spec.direction = "positive" -> (IF c < 0 THEN 0 ELSE c)
             [] m.spec.direction = "negative" -> (IF c > 0 THEN -c ELSE c)
             [] OTHER -> c
  IN  [g |-> m, rnd |-> s.rnd, out |-> v]

\* ------------------------------------------------------------- spiky noise
\* pStart and pEnd are probabilities in units of 1/RndMod
MetricSpikyNoiseSpec ==
  [type |-> "", pStart |-> 1, pEnd |-> 3, peakTarget |-> 10, variation |-> 3,
   direction |-> "positive"]

spikyValid(v) ==
  /\ v.pStart >= 0 /\ v.pStart <= RndMod
  /\ v.pEnd >= 0 /\ v.pEnd <= RndMod
  /\ v.variation >= 0
  /\ v.direction \in validDirs

NewMetricSpikyNoise(at, is) ==
  LET d == Decode(MetricSpikyNoiseSpec, is)
  IN  IF ~d.ok \/ ~spikyValid(d.v) THEN [ok |-> FALSE]
      ELSE [ok |-> TRUE, g |-> [kind |-> "spikyNoise", spec |-> d.v, spiking |-> FALSE]]

MetricSpikyNoise_Reconfigure(m, at, is) ==
  LET d == Decode(m.spec, is)
  IN  [ok |-> d.ok /\ spikyValid(d.v), g |-> [m EXCEPT !.spec = d.v]]

MetricSpikyNoise_Emit(m, tick, r, incoming) ==
  LET drawn == ~m.spiking
      on == m.spiking \/ RndOut(r) < m.spec.pStart
      r1 == IF drawn THEN RndNext(r) ELSE r
      s == samplePoisson(m.spec.peakTarget, r1)
      hi == m.spec.peakTarget + m.spec.variation
      c == IF s.sample < 0 THEN 0 ELSE IF s.sample > hi THEN hi ELSE s.sample
      v == CASE m.spec.direction = "positive" -> (IF c < 0 THEN -c ELSE c)
             [] m.spec.direction = "negative" -> (IF c > 0 THEN -c ELSE c)
             [] OTHER -> c
  IN  IF on
      THEN [g |-> [m EXCEPT !.spiking = ~(RndOut(s.rnd) < m.spec.pEnd)],
            rnd |-> RndNext(s.rnd), out |-> incoming + v]
      ELSE [g |-> m, rnd |-> r1, out |-> incoming]

\* --------------------------------------------------- the generator registry
hasType(spec) == "type" \in DOMAIN spec

CreateMetricGenerator(mes) ==
  IF ~hasType(mes.Spec) THEN [ok |-> FALSE]
  ELSE CASE mes.Spec.type = "constant" -> NewMetricConstant(mes.At, mes.Spec)
         [] mes.Spec.type = "normalNoise" -> NewMetricNormalNoise(mes.At, mes.Spec)
         [] mes.Spec.type = "poissonNoise" -> NewMetricPoissonNoise(mes.At, mes.Spec)
         [] mes.Spec.type = "randomWalk" -> NewMetricRandomWalk(mes.At, mes.Spec)
         [] mes.Spec.type = "ramp" -> NewMetricRamp(mes.At, mes.Spec)
         [] mes.Spec.type = "spikyNoise" -> NewMetricSpikyNoise(mes.At, mes.Spec)
         [] OTHER -> [ok |-> FALSE]

\* g.Reconfigure(at, spec), by the dynamic type of g
Reconfigure(g, at, is) ==
  CASE g.kind = "constant" -> MetricConstant_Reconfigure(g, at, is)
    [] g.kind = "normalNoise" -> MetricNormalNoise_Reconfigure(g, at, is)
    [] g.kind = "poissonNoise" -> MetricPoissonNoise_Reconfigure(g, at, is)
    [] g.kind = "randomWalk" -> MetricRandomWalk_Reconfigure(g, at, is)
    [] g.kind = "ramp" -> MetricRamp_Reconfigure(g, at, is)
    [] OTHER -> MetricSpikyNoise_Reconfigure(g, at, is)

\* g.Emit(state, incoming), by the dynamic type of g
Emit(g, tick, r, incoming) ==
  CASE g.kind = "constant" -> MetricConstant_Emit(g, tick, r, incoming)
    [] g.kind = "normalNoise" -> MetricNormalNoise_Emit(g, tick, r, incoming)
    [] g.kind = "poissonNoise" -> MetricPoissonNoise_Emit(g, tick, r, incoming)
    [] g.kind = "randomWalk" -> MetricRandomWalk_Emit(g, tick, r, incoming)
    [] g.kind = "ramp" -> MetricRamp_Emit(g, tick, r, incoming)
    [] OTHER -> MetricSpikyNoise_Emit(g, tick, r, incoming)

\* --------------------------------------------------------- metric producers
\* MetricProducerSpec; attributes is "ok" when the attribute maps convert to
\* OpenTelemetry maps and "bad" when pcommon.Map.FromRaw rejects them
MetricProducerSpec(name, to) ==
  [to |-> to, attributes |-> "ok", generators |-> <<>>,
   frequency |-> DefaultFrequency, type |-> "", name |-> name, disabled |-> FALSE]

knownGenerators(generators, names) ==
  \A i \in DOMAIN names : names[i] \in DOMAIN generators

\* a constructor that does not look the generators up
NewMetricGauge_NoLookup(generators, name, mes) ==
  LET d == Decode(MetricProducerSpec(name, mes.To), mes.Spec)
  IN  IF name = "" THEN [ok |-> FALSE, err |-> "ErrInvalidMetricName"]
      ELSE IF ~d.ok THEN [ok |-> FALSE, err |-> "DecodeError"]
      ELSE IF Len(d.v.generators) = 0 THEN [ok |-> FALSE, err |-> "ErrNoGenerators"]
      ELSE [ok |-> TRUE, p |-> [kind |-> "gauge", spec |-> d.v, lastEmitted |-> 0]]

\* err names the error the constructor wraps
NewMetricGauge(generators, name, mes) ==
  LET d == Decode(MetricProducerSpec(name, mes.To), mes.Spec)
  IN  IF name = "" THEN [ok |-> FALSE, err |-> "ErrInvalidMetricName"]
      ELSE IF ~d.ok THEN [ok |-> FALSE, err |-> "DecodeError"]
      ELSE IF Len(d.v.generators) = 0 THEN [ok |-> FALSE, err |-> "ErrNoGenerators"]
      ELSE IF ~knownGenerators(generators, d.v.generators)
      THEN [ok |-> FALSE, err |-> "ErrUnknownGenerator"]
      ELSE [ok |-> TRUE, p |-> [kind |-> "gauge", spec |-> d.v, lastEmitted |-> 0]]

NewMetricSum(generators, name, mes) ==
  LET g == NewMetricGauge(generators, name, mes)
  IN  IF g.ok THEN [ok |-> TRUE, p |-> [g.p EXCEPT !.kind = "sum"]] ELSE g

CreateMetricExporter(generators, name, mes) ==
  IF ~hasType(mes.Spec) THEN [ok |-> FALSE]
  ELSE CASE mes.Spec.type = "gauge" -> NewMetricGauge(generators, name, mes)
         [] mes.Spec.type = "sum" -> NewMetricSum(generators, name, mes)
         [] OTHER -> [ok |-> FALSE]

MetricGauge_Reconfigure(m, generators, spec) ==
  LET d == Decode(m.spec, spec)
  IN  [ok |-> d.ok /\ knownGenerators(generators, d.v.generators),
       p  |-> [m EXCEPT !.spec = d.v]]

emitDueToFrequency_Strict(m, tick) == tick > m.lastEmitted + m.spec.frequency

emitDueToFrequency(m, tick) == tick >= m.lastEmitted + m.spec.frequency

emitDueToTo(m, tick) == m.spec.to = 0 \/ tick <= m.spec.to

IsDisabled(m) == m.spec.disabled

ShouldEmit(m, tick) ==
  ~IsDisabled(m) /\ emitDueToFrequency(m, tick) /\ emitDueToTo(m, tick)

Enable(m) == [m EXCEPT !.spec.disabled = FALSE]

Disable_Noop(m) == m

Disable(m) == [m EXCEPT !.spec.disabled = TRUE]

RECURSIVE calculateValueFrom(_, _, _, _, _, _)
\* the loop of calculateValue from the i-th generator name on; calls lists the
\* generator Emit calls made, as <<name, incoming, result>>
calculateValueFrom(generators, names, i, tick, r, acc) ==
  IF i > Len(names) THEN [ok |-> TRUE, gens |-> generators, rnd |-> r,
                          value |-> acc.value, calls |-> acc.calls]
  ELSE IF names[i] \notin DOMAIN generators
       THEN [ok |-> FALSE, gens |-> generators, rnd |-> r, value |-> 0,
             calls |-> acc.calls]
  ELSE The({calculateValueFrom([generators EXCEPT ![names[i]] = e.g], names, i + 1,
                               tick, e.rnd,
                               [value |-> e.out,
                                calls |-> Append(acc.calls,
                                                 <<names[i], acc.value, e.out>>)]) :
            e \in {Emit(generators[names[i]], tick, r, acc.value)}})

\* a fold that stops after the first generator name
calculateValue_FirstOnly(generators, names, tick, r) ==
  calculateValueFrom(generators, SubSeq(names, 1, 1), 1, tick, r,
                     [value |-> 0, calls |-> <<>>])

calculateValue(generators, names, tick, r) ==
  calculateValueFrom(generators, names, 1, tick, r, [value |-> 0, calls |-> <<>>])

\* MetricGauge.Emit and MetricSum.Emit: the result carries the producer, the
\* generators and the random source after the call, whether an error was
\* returned, and the datapoint written to the batch (if any)
MetricGauge_Emit(m, generators, tick, r) ==
  IF ~ShouldEmit(m, tick)
  THEN [p |-> m, gens |-> generators, rnd |-> r, ok |-> TRUE, points |-> <<>>,
        calls |-> <<>>]
  ELSE LET m1 == [m EXCEPT !.lastEmitted = tick]
       IN  The({IF ~c.ok \/ m.spec.attributes # "ok"
                THEN [p |-> m1, gens |-> c.gens, rnd |-> c.rnd, ok |-> FALSE,
                      points |-> <<>>, calls |-> c.calls]
                ELSE [p |-> m1, gens |-> c.gens, rnd |-> c.rnd, ok |-> TRUE,
                      points |-> <<[name |-> m.spec.name, kind |-> m.kind,
                                    tick |-> tick, value |-> c.value]>>,
                      calls |-> c.calls] :
                c \in {calculateValue(generators, m.spec.generators, tick, r)}})

\* ----------------------------------------------------------- trace producer
TraceIDLen == 16
SpanIDLen == 8
maxSigma == 3
EmptySpanID == -1
\* rates are float64 in the code; here they are counted in units of
\* 1 / RateScale, so that a rate can have a fractional part
RateScale == 4

RECURSIVE RndSkip(_, _)
\* the random source after n draws
RndSkip(r, n) == IF n = 0 THEN r ELSE RndSkip(RndNext(r), n - 1)

\* sixteen r.IntN(256) draws; the ID is named by the state that determines them
randomTraceID(r) == [id |-> r, rnd |-> RndSkip(r, TraceIDLen)]

randomSpanID(r) == [id |-> r, rnd |-> RndSkip(r, SpanIDLen)]

\* traceproducer's own five-argument intrerpolate
rateInterpolate(start, target, startAt, now, duration) ==
  IF duration <= 0 THEN target
  ELSE LET elapsed == now - startAt
       IN  IF elapsed <= 0 THEN start
           ELSE IF elapsed >= duration THEN target
           ELSE start + ((target - start) * elapsed) \div duration

RECURSIVE scaledKindaNormal(_)
\* the half-normal rejection loop; x is the numerator of x / maxSigma
scaledKindaNormal(r) ==
  LET x == Min2(NormFloat64(r), maxSigma)
  IN  IF x >= 0 THEN [x |-> x, rnd |-> RndNext(r)] ELSE scaledKindaNormal(RndNext(r))

NewTraceProducer(spec) == [spec |-> spec, start |-> spec.Rate]

RECURSIVE emitSpan(_, _, _, _)
RECURSIVE emitChildren(_, _, _, _, _, _)
\* emitSpan: the spans appended to the batch, in order, the span-ID source
\* after the call and whether the call succeeded
emitSpan(s, traceID, parentSpanID, idr) ==
  IF ~s.ok THEN [ok |-> FALSE, spans |-> <<>>, idr |-> idr]
  ELSE LET sid == randomSpanID(idr)
           me == [ref |-> s.Ref, trace |-> traceID, span |-> sid.id,
                  parent |-> parentSpanID]
       IN  emitChildren(s.Children, 1, traceID, sid.id, sid.rnd, <<me>>)

RECURSIVE emitChildren_NoParent(_, _, _, _, _, _)
\* children emitted without the span ID of their parent
emitChildren_NoParent(children, i, traceID, spanID, idr, acc) ==
  IF i > Len(children) THEN [ok |-> TRUE, spans |-> acc, idr |-> idr]
  ELSE LET c == emitSpan(children[i], traceID, EmptySpanID, idr)
       IN  IF ~c.ok THEN [ok |-> FALSE, spans |-> acc \o c.spans, idr |-> c.idr]
           ELSE emitChildren_NoParent(children, i + 1, traceID, spanID, c.idr,
                                      acc \o c.spans)

emitChildren(children, i, traceID, spanID, idr, acc) ==
  IF i > Len(children) THEN [ok |-> TRUE, spans |-> acc, idr |-> idr]
  ELSE LET c == emitSpan(children[i], traceID, spanID, idr)
       IN  IF ~c.ok THEN [ok |-> FALSE, spans |-> acc \o c.spans, idr |-> c.idr]
           ELSE emitChildren(children, i + 1, traceID, spanID, c.idr, acc \o c.spans)

RECURSIVE replay(_, _, _, _, _)
\* the loop "for range int(rate)" of exemplar.Emit
replay(t, n, r, idr, acc) ==
  IF n <= 0 THEN [ok |-> TRUE, spans |-> acc, rnd |-> r, idr |-> idr]
  ELSE LET r1 == RndNext(r)
           j0 == scaledKindaNormal(r1)
           j1 == scaledKindaNormal(j0.rnd)
           tid == randomTraceID(j1.rnd)
           e == emitSpan(t.spec.Exemplar, tid.id, EmptySpanID, idr)
       IN  IF ~e.ok THEN [ok |-> FALSE, spans |-> acc \o e.spans, rnd |-> tid.rnd,
                          idr |-> e.idr]
           ELSE replay(t, n - 1, tid.rnd, e.idr, acc \o e.spans)

currentRate(t, now) ==
  rateInterpolate(t.start, t.spec.Rate, t.spec.At, now, t.spec.To - t.spec.At)

\* int(rate) of a positive rate, rounded up instead of down
spanCount_Up(rate) == (rate + RateScale - 1) \div RateScale

\* int(rate) of a positive rate
spanCount(rate) == rate \div RateScale

exemplar_Emit(t, tick, r, idr) ==
  IF t.spec.Disabled \/ tick < t.spec.At \/ tick > t.spec.To
  THEN [ok |-> TRUE, spans |-> <<>>, rnd |-> r, idr |-> idr]
  ELSE IF currentRate(t, tick) <= 0
  THEN [ok |-> TRUE, spans |-> <<>>, rnd |-> r, idr |-> idr]
  ELSE replay(t, spanCount(currentRate(t, tick)), r, idr, <<>>)

\* SetRate that leaves the start rate alone
SetRate_KeepStart(t, at, to, now, rate) ==
  [t EXCEPT !.spec.At = at, !.spec.To = to, !.spec.Rate = rate]

SetRate(t, at, to, now, rate) ==
  [t EXCEPT !.start = currentRate(t, now), !.spec.At = at, !.spec.To = to,
            !.spec.Rate = rate]

SetStart(t, start) == [t EXCEPT !.start = start]

\* ------------------------------------------------------------ script runner
\* The mutable objects of one run, as a record: the generator, producer and
\* trace-producer maps of the Script, the RunState's cursor and random source,
\* and the package-level span-ID source.
World(gens, prods, tps, cur, rnd, idr) ==
  [gens |-> gens, prods |-> prods, tps |-> tps, cur |-> cur, rnd |-> rnd, idr |-> idr]

\* the comparison function handed to slices.SortFunc
actionCmp(a, b) ==
  IF a.At # b.At THEN a.At - b.At
  ELSE IF a.Type # b.Type THEN StrRank(a.Type) - StrRank(b.Type)
  ELSE StrRank(a.ID) - StrRank(b.ID)

Perms(n) == {f \in [1..n -> 1..n] : \A i, j \in 1..n : i # j => f[i] # f[j]}

\* slices.SortFunc does not promise stability: every ordering of the input
\* that is sorted under actionCmp is a possible result
SortFunc(acts) ==
  {[i \in 1..Len(acts) |-> acts[f[i]]] : f \in
     {g \in Perms(Len(acts)) :
        \A i \in 1..Len(acts) - 1 : actionCmp(acts[g[i]], acts[g[i + 1]]) <= 0}}

RECURSIVE maxAtTo(_, _, _)
maxAtTo(acts, i, v) ==
  IF i > Len(acts) THEN v
  ELSE maxAtTo(acts, i + 1, Max2(Max2(v, acts[i].At), acts[i].To))

\* calculateDuration without the check of the configured duration
calculateDuration_NoCheck(cd, acts) ==
  IF Len(acts) = 0 THEN [ok |-> FALSE, d |-> 0]
  ELSE IF cd = 0 THEN [ok |-> TRUE, d |-> maxAtTo(acts, 1, acts[1].At)]
  ELSE [ok |-> TRUE, d |-> cd]

calculateDuration(cd, acts) ==
  IF Len(acts) = 0 THEN [ok |-> FALSE, d |-> 0]
  ELSE LET checkvalue == maxAtTo(acts, 1, acts[1].At)
       IN  IF cd = 0 THEN [ok |-> TRUE, d |-> checkvalue]
           ELSE IF cd < checkvalue THEN [ok |-> FALSE, d |-> 0]
           ELSE [ok |-> TRUE, d |-> cd]

RECURSIVE createGenerators(_, _, _)
\* the loop of Prepare that creates a generator for every metricGenerator
\* action; a later action with the same ID replaces the earlier generator
createGenerators(acts, i, gens) ==
  IF i > Len(acts) THEN [ok |-> TRUE, gens |-> gens]
  ELSE IF acts[i].Type # "metricGenerator" THEN createGenerators(acts, i + 1, gens)
  ELSE LET c == CreateMetricGenerator(acts[i])
       IN  IF ~c.ok THEN [ok |-> FALSE, gens |-> gens]
           ELSE createGenerators(acts, i + 1,
                  [id \in DOMAIN gens \cup {acts[i].ID} |->
                     IF id = acts[i].ID THEN c.g ELSE gens[id]])

\* tick's test whether the action at the cursor is dispatched now
actionDue_NoAtCheck(w, acts, now) == Len(acts) > w.cur

actionDue(w, acts, now) == Len(acts) > w.cur /\ acts[w.cur + 1].At <= now

\* the producer map with p stored under id
storeProducer(prods, id, p) ==
  [k \in DOMAIN prods \cup {id} |-> IF k = id THEN p ELSE prods[k]]

\* a create-or-update branch: an existing producer is reconfigured and kept
dispatchMetric_CreateOrUpdate(w, action) ==
  IF action.ID \in DOMAIN w.prods
  THEN LET c == MetricGauge_Reconfigure(w.prods[action.ID], w.gens, action.Spec)
       IN  [ok |-> c.ok, w |-> [w EXCEPT !.prods[action.ID] = c.p]]
  ELSE LET n == CreateMetricExporter(w.gens, action.ID, action)
       IN  IF ~n.ok THEN [ok |-> FALSE, w |-> w]
           ELSE [ok |-> TRUE, w |-> [w EXCEPT !.prods = storeProducer(@, action.ID, n.p)]]

\* the case "metric" of tick: an existing producer is reconfigured first;
\* then, in every case, a new producer is created and stored
dispatchMetric(w, action) ==
  LET had == action.ID \in DOMAIN w.prods
      c == IF had THEN MetricGauge_Reconfigure(w.prods[action.ID], w.gens, action.Spec)
           ELSE [ok |-> TRUE]
      w1 == IF had THEN [w EXCEPT !.prods[action.ID] = c.p] ELSE w
      n == CreateMetricExporter(w.gens, action.ID, action)
  IN  IF ~c.ok THEN [ok |-> FALSE, w |-> w1]
      ELSE IF ~n.ok THEN [ok |-> FALSE, w |-> w1]
      ELSE [ok |-> TRUE, w |-> [w EXCEPT !.prods = storeProducer(@, action.ID, n.p)]]

\* the switch of tick on the action type
dispatch(w, action, tick) ==
  CASE action.Type = "metricGenerator" ->
         IF action.ID \notin DOMAIN w.gens THEN [ok |-> FALSE, w |-> w]
         ELSE LET c == Reconfigure(w.gens[action.ID], action.At, action.Spec)
              IN  [ok |-> c.ok, w |-> [w EXCEPT !.gens[action.ID] = c.g]]
    [] action.Type = "metric" -> dispatchMetric(w, action)
    [] action.Type = "disableMetric" ->
         IF action.ID \in DOMAIN w.prods
         THEN [ok |-> TRUE, w |-> [w EXCEPT !.prods[action.ID] = Disable(@)]]
         ELSE [ok |-> FALSE, w |-> w]
    [] action.Type = "enableMetric" ->
         IF action.ID \in DOMAIN w.prods
         THEN [ok |-> TRUE, w |-> [w EXCEPT !.prods[action.ID] = Enable(@)]]
         ELSE [ok |-> FALSE, w |-> w]
    [] action.Type = "traceRate" ->
         IF action.ID \notin DOMAIN w.tps \/ "rate" \notin DOMAIN action.Spec
         THEN [ok |-> FALSE, w |-> w]
         ELSE LET t1 == SetRate(w.tps[action.ID], action.At, action.To, tick,
                                action.Spec.rate)
                  t2 == IF "start" \in DOMAIN action.Spec
                        THEN SetStart(t1, action.Spec.start) ELSE t1
              IN  [ok |-> TRUE, w |-> [w EXCEPT !.tps[action.ID] = t2]]
    [] OTHER -> [ok |-> FALSE, w |-> w]

RECURSIVE emitProducers(_, _, _, _, _)
\* the loop of emitMetrics over the producer names, in the order the map
\* iteration delivered them; asked records every producer.Emit call
emitProducers(w, order, i, tick, acc) ==
  IF i > Len(order) THEN [ok |-> TRUE, w |-> w, asked |-> acc.asked, md |-> acc.md]
  ELSE The({LET w1 == [w EXCEPT !.prods[order[i]] = e.p, !.gens = e.gens,
                                  !.rnd = e.rnd]
                 rec == [id |-> order[i], pre |-> w.prods[order[i]], post |-> e.p,
                         gensPre |-> w.gens, gensPost |-> e.gens, rndPre |-> w.rnd,
                         rndPost |-> e.rnd, ok |-> e.ok, points |-> e.points,
                         calls |-> e.calls]
                 acc1 == [asked |-> Append(acc.asked, rec), md |-> acc.md \o e.points]
             IN  IF ~e.ok
                 THEN [ok |-> FALSE, w |-> w1, asked |-> acc1.asked, md |-> acc1.md]
                 ELSE emitProducers(w1, order, i + 1, tick, acc1) :
            e \in {MetricGauge_Emit(w.prods[order[i]], w.gens, tick, w.rnd)}})

\* the loop over the emitters: fail is the index of the first emitter that
\* returns an error (0: none does); the result lists the emitters called
callEmitters(n, fail) ==
  [ok |-> fail = 0 \/ fail > n,
   called |-> [i \in 1..(IF fail = 0 \/ fail > n THEN n ELSE fail) |-> i]]

\* emitMetrics without the test of the from offset
emitMetrics_NoFrom(w, tick, from, nEmitters, order, fail) ==
  The({LET c == IF e.ok THEN callEmitters(nEmitters, fail)
                 ELSE [ok |-> TRUE, called |-> <<>>]
        IN  [ok |-> e.ok /\ c.ok, w |-> e.w, asked |-> e.asked, md |-> e.md,
             called |-> c.called] :
       e \in {emitProducers(w, order, 1, tick, [asked |-> <<>>, md |-> <<>>])}})

emitMetrics(w, tick, from, nEmitters, order, fail) ==
  The({LET c == IF e.ok /\ tick >= from THEN callEmitters(nEmitters, fail)
                 ELSE [ok |-> TRUE, called |-> <<>>]
        IN  [ok |-> e.ok /\ c.ok, w |-> e.w, asked |-> e.asked, md |-> e.md,
             called |-> c.called] :
       e \in {emitProducers(w, order, 1, tick, [asked |-> <<>>, md |-> <<>>])}})

RECURSIVE emitTraceProducers(_, _, _, _, _)
emitTraceProducers(w, order, i, tick, acc) ==
  IF i > Len(order) THEN [ok |-> TRUE, w |-> w, asked |-> acc.asked, td |-> acc.td]
  ELSE The({LET w1 == [w EXCEPT !.rnd = e.rnd, !.idr = e.idr]
                 acc1 == [asked |-> Append(acc.asked, order[i]),
                          td |-> acc.td \o e.spans]
             IN  IF ~e.ok
                 THEN [ok |-> FALSE, w |-> w1, asked |-> acc1.asked, td |-> acc1.td]
                 ELSE emitTraceProducers(w1, order, i + 1, tick, acc1) :
            e \in {exemplar_Emit(w.tps[order[i]], tick, w.rnd, w.idr)}})

emitTraces(w, tick, from, nEmitters, order, fail) ==
  The({LET c == IF e.ok /\ tick >= from THEN callEmitters(nEmitters, fail)
                 ELSE [ok |-> TRUE, called |-> <<>>]
        IN  [ok |-> e.ok /\ c.ok, w |-> e.w, asked |-> e.asked, td |-> e.td,
             called |-> c.called] :
       e \in {emitTraceProducers(w, order, 1, tick, [asked |-> <<>>, td |-> <<>>])}})

\* an empty per-tick record: what a tick that did nothing would log
NoTick(tick, cur) ==
  [tick |-> tick, cursor |-> cur, dispatched |-> 0, dispatchOk |-> TRUE,
   asked |-> <<>>, md |-> <<>>, metricCalls |-> <<>>, metricsOk |-> TRUE,
   tracesRun |-> FALSE, tracesAsked |-> <<>>, td |-> <<>>, traceCalls |-> <<>>,
   tracesOk |-> TRUE, ok |-> TRUE]

\* tick: one iteration of the run loop.  in is the tick's input: the orders
\* in which the two map iterations deliver the producers, and which emitter
\* calls fail.  The result is the world after the tick and the tick's record.
tick(w, acts, now, from, nEmitters, in) ==
  LET due == actionDue(w, acts, now)
      w0 == IF due THEN [w EXCEPT !.cur = w.cur + 1] ELSE w
      r0 == [NoTick(now, w.cur) EXCEPT !.dispatched = IF due THEN w.cur + 1 ELSE 0]
  IN  The({
        IF ~d.ok THEN [w |-> d.w, rec |-> [r0 EXCEPT !.dispatchOk = FALSE, !.ok = FALSE]]
        ELSE The({
          LET r1 == [r0 EXCEPT !.asked = m.asked, !.md = m.md,
                               !.metricCalls = m.called, !.metricsOk = m.ok,
                               !.ok = m.ok]
          IN  IF ~m.ok THEN [w |-> m.w, rec |-> r1]
              ELSE The({
                [w |-> t.w,
                 rec |-> [r1 EXCEPT !.tracesRun = TRUE, !.tracesAsked = t.asked,
                                    !.td = t.td, !.traceCalls = t.called,
                                    !.tracesOk = t.ok, !.ok = t.ok]] :
                t \in {emitTraces(m.w, now, from, nEmitters, in.torder,
                                  IF in.fail > nEmitters THEN in.fail - nEmitters
                                  ELSE 0)}}) :
          m \in {emitMetrics(d.w, now, from, nEmitters, in.order,
                             IF in.fail <= nEmitters THEN in.fail ELSE 0)}}) :
        d \in {IF due THEN dispatch(w0, acts[w.cur + 1], now)
               ELSE [ok |-> TRUE, w |-> w0]}})

\* the orders in which ranging over a map with key set ids can deliver the keys
MapOrders(ids) ==
  {f \in [1..Cardinality(ids) -> ids] : \A i, j \in DOMAIN f : i # j => f[i] # f[j]}

\* the producer map as emitMetrics finds it at the given tick: the due action,
\* if any, has been dispatched
prodsAtEmit(w, acts, now) ==
  IF actionDue(w, acts, now)
  THEN dispatch([w EXCEPT !.cur = w.cur + 1], acts[w.cur + 1], now).w.prods
  ELSE w.prods

\* the inputs of a tick: the orders in which the two map iterations deliver
\* their keys, and the first emitter call that returns an error (0: none;
\* 1..n: EmitMetrics of emitter i; n+1..2n: EmitTraces of emitter i-n)
TickInputs(w, acts, now, nEmitters) ==
  [order : MapOrders(DOMAIN prodsAtEmit(w, acts, now)),
   torder : MapOrders(DOMAIN w.tps),
   fail : 0..(2 * nEmitters)]

\* ------------------------------------------------------- sample scripts
EmptyMap == [k \in {} |-> 0]

Action(id, at, to, type, spec) ==
  [ID |-> id, At |-> at, To |-> to, Type |-> type, Spec |-> spec]

\* the script actions the sample scripts are made of
Menu ==
  << Action("g1", 0, 0, "metricGenerator", [type |-> "constant", value |-> 1]),
     Action("g1", Second + 1, 0, "metricGenerator", [type |-> "constant", value |-> 5]),
     Action("g2", 0, 0, "metricGenerator",
            [type |-> "randomWalk", target |-> 0, stepSize |-> 4, elasticity |-> 50,
             variation |-> 10]),
     Action("p1", 0, 0, "metric",
            [type |-> "gauge", generators |-> <<"g1">>, frequency |-> 2 * Second]),
     Action("p1", 3 * Second, 4 * Second, "metric",
            [type |-> "gauge", generators |-> <<"g1">>, frequency |-> 2 * Second]),
     Action("p1", 0, 0, "metric",
            [type |-> "gauge", generators |-> <<"g2">>, frequency |-> Second]),
     Action("p2", 0, 0, "metric",
            [type |-> "gauge", generators |-> <<"g2">>, frequency |-> Second]),
     Action("p2", Second, 0, "metric",
            [type |-> "gauge", generators |-> <<"g2", "g1">>, frequency |-> 0]),
     Action("p2", 0, 0, "metric",
            [type |-> "gauge", generators |-> <<"g1">>, frequency |-> 0,
             attributes |-> "bad"]),
     Action("p1", 0, 0, "metric",
            [type |-> "sum", generators |-> <<"g1">>, frequency |-> Second,
             disabled |-> TRUE]),
     Action("p1", Second, 0, "disableMetric", EmptyMap),
     Action("p1", Second, 0, "enableMetric", EmptyMap),
     Action("t1", Second, 3 * Second, "traceRate", [rate |-> 2 * RateScale]),
     Action("g1", Second, 0, "bogus", EmptyMap) >>

\* the k-th smallest member of a set of indices
nth(S, k) == CHOOSE i \in S : Cardinality({j \in S : j < i}) = k - 1

\* the scripts: at most MaxActions actions of the menu, in menu order
Scripts ==
  {[k \in 1..Cardinality(S) |-> Menu[nth(S, k)]] :
     S \in {T \in SUBSET (1..Len(Menu)) : Cardinality(T) <= MaxActions}}

\* the values time.Now().UnixNano() can deliver to MakeRNG
ClockSeeds == {1, 7}

Leaf(ref) == [Ref |-> ref, ok |-> TRUE, Children |-> <<>>]

SampleExemplar == [Ref |-> "root", ok |-> TRUE, Children |-> <<Leaf("a"), Leaf("b")>>]

NoTraces == EmptyMap

\* one trace producer, registered with AddTraceProducer before Simulate
OneTrace ==
  [id \in {"t1"} |-> NewTraceProducer([At |-> 0, To |-> 2 * Second,
                                       Exemplar |-> SampleExemplar,
                                       Disabled |-> FALSE, Rate |-> 1 * RateScale])]

Setup(d, seed, f, n, tps, clock, start) ==
  [Duration |-> d, Seed |-> seed, from |-> f, emitters |-> n, traces |-> tps,
   clock |-> clock, WallclockStart |-> start]

\* the sample configurations: cfg.Duration and cfg.Seed (0: not configured),
\* the from offset, the number of emitters, the trace producers, the clock
\* value that seeded the span-ID source, and cfg.WallclockStart (0: the zero
\* time, not configured)
Setups ==
  { Setup(0, 3, 0, 2, NoTraces, 1, 0),
    Setup(4 * Second, 3, 2 * Second, 2, OneTrace, 1, 100 * Second),
    Setup(4 * Second, 0, 0, 1, OneTrace, 7, 0),
    Setup(0, 0, Second, 1, NoTraces, 1, 100 * Second),
    Setup(Second, 3, 0, 1, NoTraces, 1, 0) }

\* ------------------------------------------------------- timeline compiler
\* A Segment of a timeline document; HasStart tells whether the optional start
\* was given, a StartTs of 0 is an omitted start_ts.
Segment(type, startTs, endTs, hasStart, start, target) ==
  [Type |-> type, StartTs |-> startTs, EndTs |-> endTs, HasStart |-> hasStart,
   Start |-> start, Target |-> target]

\* the defaulting of ParseTimeline applied to one timeline, left undone
defaultTypes_Skip(timeline) == timeline

\* the defaulting of ParseTimeline applied to one timeline
defaultTypes(timeline) ==
  [i \in DOMAIN timeline |->
     IF timeline[i].Type = "" THEN [timeline[i] EXCEPT !.Type = "segment"]
     ELSE timeline[i]]

\* ParseTimeline after the JSON decoding: only the metrics are visited
ParseTimeline(doc) ==
  [doc EXCEPT !.metrics =
     [m \in DOMAIN doc.metrics |->
        [doc.metrics[m] EXCEPT !.Variants =
           [v \in DOMAIN doc.metrics[m].Variants |->
              [doc.metrics[m].Variants[v] EXCEPT !.Timeline = defaultTypes(@)]]]]]

\* the number of entries of type "segment" among the first n of a timeline
RECURSIVE nSegments(_, _)
nSegments(timeline, n) ==
  IF n = 0 THEN 0
  ELSE nSegments(timeline, n - 1) + (IF timeline[n].Type = "segment" THEN 1 ELSE 0)

\* IDs are tuples of four: the two parts an ID is made of, then the suffix
\* and the counter of a generator ID; withSuffix(id, "ramp", 2) stands for
\* id + "_ramp_" + strconv.Itoa(2) and withSuffix(id, "noise", 0) for id + "_noise"
withSuffix(id, suffix, k) == [id EXCEPT ![3] = suffix, ![4] = k]

generateGeneratorIDs(id, timeline) ==
  <<withSuffix(id, "noise", 0)>>
  \o [k \in 1..nSegments(timeline, Len(timeline)) |-> withSuffix(id, "ramp", k - 1)]

\* the ID stands for the hash of name, type and attributes
makeMetricID(metric, variant) == <<metric.Name, variant.Attributes, "", 0>>

makeTraceID(trace, variant) == <<trace.Name, variant.Name, "", 0>>

getMetricFrequency(frequency) == IF frequency = 0 THEN DefaultFrequency ELSE frequency

RECURSIVE lastSegmentEnd_AnyType(_, _, _)
\* the lastAt loop without the test of the entry's type
lastSegmentEnd_AnyType(timeline, i, lastAt) ==
  IF i > Len(timeline) THEN lastAt
  ELSE lastSegmentEnd_AnyType(timeline, i + 1,
         IF timeline[i].EndTs > lastAt THEN timeline[i].EndTs ELSE lastAt)

RECURSIVE lastSegmentEnd(_, _, _)
\* the loop of mergeMetric that computes lastAt
lastSegmentEnd(timeline, i, lastAt) ==
  IF i > Len(timeline) THEN lastAt
  ELSE lastSegmentEnd(timeline, i + 1,
         IF timeline[i].Type = "segment" /\ timeline[i].EndTs > lastAt
         THEN timeline[i].EndTs ELSE lastAt)

addMetricToConfig(id, metric, variant, frequency, generators, startAt, endAt) ==
  Action(id, startAt, endAt, "metric",
         [name |-> metric.Name, type |-> metric.Type, to |-> endAt,
          frequency |-> frequency, generators |-> generators])

addMetricNoiseGenerator(id) ==
  Action(withSuffix(id, "noise", 0), 0, 0, "metricGenerator",
         [type |-> "normalNoise", variation |-> 5, direction |-> "both",
          stdDev |-> -1])

RECURSIVE timelineLoop(_, _, _, _)
\* the second loop of addMetricTimelineToScript; st holds the loop's locals
\* startAt, startValue, disabled and rampCounter and the actions added
timelineLoop(id, timeline, i, st) ==
  IF i > Len(timeline) THEN [ok |-> TRUE, acts |-> st.acts]
  ELSE LET dp == timeline[i]
           startAt == IF dp.StartTs # 0 THEN dp.StartTs ELSE st.startAt
           startValue == IF dp.HasStart THEN dp.Start ELSE st.startValue
           duration == IF dp.EndTs - startAt <= 0 THEN Second ELSE dp.EndTs - startAt
           enable == IF st.disabled
                     THEN <<Action(id, startAt, 0, "enableMetric", EmptyMap)>>
                     ELSE <<>>
           ramp == Action(withSuffix(id, "ramp", st.rampCounter), startAt, 0, "metricGenerator",
                          [type |-> "ramp", start |-> startValue, target |-> dp.Target,
                           duration |-> duration,
                           postend_zero |->
                             (st.rampCounter < nSegments(timeline, Len(timeline)) - 1)])
       IN  IF dp.Type = "disable"
           THEN timelineLoop(id, timeline, i + 1,
                  [st EXCEPT !.startAt = startAt, !.startValue = startValue,
                             !.disabled = TRUE,
                             !.acts = Append(@, Action(id, dp.StartTs, 0,
                                                       "disableMetric", EmptyMap))])
           ELSE IF dp.Type # "segment" THEN [ok |-> FALSE, acts |-> st.acts]
           ELSE timelineLoop(id, timeline, i + 1,
                  [startAt |-> dp.EndTs, startValue |-> dp.Target, disabled |-> FALSE,
                   rampCounter |-> st.rampCounter + 1,
                   acts |-> st.acts \o enable \o <<ramp>>])

addMetricTimelineToScript(id, timeline) ==
  IF Len(timeline) = 0 THEN [ok |-> TRUE, acts |-> <<>>]
  ELSE timelineLoop(id, timeline, 1,
         [startAt |-> timeline[1].StartTs,
          startValue |-> IF timeline[1].HasStart THEN timeline[1].Start ELSE 0,
          disabled |-> FALSE, rampCounter |-> 0, acts |-> <<>>])

RECURSIVE mergeMetric(_, _, _)
\* mergeMetric from its v-th variant on; acts are the actions of the script
mergeMetric(acts, metric, v) ==
  IF v > Len(metric.Variants) THEN [ok |-> TRUE, acts |-> acts]
  ELSE LET variant == metric.Variants[v]
           id == makeMetricID(metric, variant)
           lastAt == lastSegmentEnd(variant.Timeline, 1, 0)
       IN  IF Len(variant.Timeline) = 0 THEN [ok |-> FALSE, acts |-> acts]
           ELSE IF lastAt = 0 THEN [ok |-> FALSE, acts |-> acts]
           ELSE The({
             IF ~t.ok
             THEN [ok |-> FALSE, acts |-> t.acts]
             ELSE mergeMetric(t.acts, metric, v + 1) :
             t \in {[ok |-> a.ok,
                     acts |-> acts
                       \o <<addMetricToConfig(id, metric, variant,
                              getMetricFrequency(metric.Frequency),
                              generateGeneratorIDs(id, variant.Timeline),
                              variant.Timeline[1].StartTs, lastAt),
                            addMetricNoiseGenerator(id)>>
                       \o a.acts] :
                    a \in {addMetricTimelineToScript(id, variant.Timeline)}}})

\* a nil value of an attribute map
Nil == "<nil>"

\* ApplyMap: the values of a, then those of b; a key whose value in b is nil
\* is removed
ApplyMap(a, b) ==
  [k \in (DOMAIN a \ {j \in DOMAIN b : b[j] = Nil}) \cup {j \in DOMAIN b : b[j] # Nil} |->
     IF k \in DOMAIN b THEN b[k] ELSE a[k]]

\* an override holds the keys duration, error and attributes it sets
applySpanOverride(span, override) ==
  [span EXCEPT
     !.Duration = IF "duration" \in DOMAIN override THEN override.duration ELSE @,
     !.Error = IF "error" \in DOMAIN override THEN override.error ELSE @,
     !.Attributes = IF "attributes" \in DOMAIN override
                    THEN ApplyMap(@, override.attributes) ELSE @]

RECURSIVE duplicateSpans_InPlace(_, _)
\* a copy that shares its fields with the span it copies: the override is
\* written to both
duplicateSpans_InPlace(span, variant) ==
  The({[span |-> c, exemplar |-> c] :
       c \in {[(IF span.Ref \in DOMAIN variant.Overrides
                THEN applySpanOverride(span, variant.Overrides[span.Ref])
                ELSE span)
               EXCEPT !.Children =
                 [i \in DOMAIN span.Children |->
                    duplicateSpans_InPlace(span.Children[i], variant).span]]}})

RECURSIVE duplicateSpans(_, _)
\* duplicateSpans: span is the copy returned, exemplar is the span handed in
\* as the caller holds it after the call (the copy has maps and a children
\* slice of its own, so nothing is written through to it)
duplicateSpans(span, variant) ==
  [span |-> [(IF span.Ref \in DOMAIN variant.Overrides
              THEN applySpanOverride(span, variant.Overrides[span.Ref])
              ELSE span)
             EXCEPT !.Children =
               [i \in DOMAIN span.Children |->
                  duplicateSpans(span.Children[i], variant).span]],
   exemplar |-> span]

addTraceToConfig(span, firstAt, endAt) ==
  NewTraceProducer([At |-> firstAt, To |-> endAt, Exemplar |-> span,
                    Disabled |-> FALSE, Rate |-> 0])

RECURSIVE addTraceTimelineToScript(_, _, _, _)
\* the loop of addTraceTimelineToScript from entry i on
addTraceTimelineToScript(id, timeline, i, startAt) ==
  IF i > Len(timeline) THEN <<>>
  ELSE IF timeline[i].Type # "segment"
  THEN addTraceTimelineToScript(id, timeline, i + 1, startAt)
  ELSE <<Action(id, startAt, timeline[i].EndTs, "traceRate",
                [rate |-> timeline[i].Target])>>
       \o addTraceTimelineToScript(id, timeline, i + 1, timeline[i].EndTs)

RECURSIVE mergeVariants(_, _, _, _)
\* the loop of mergeTrace over the variants
mergeVariants(acts, tps, trace, v) ==
  IF v > Len(trace.Variants)
  THEN [ok |-> TRUE, acts |-> acts, tps |-> tps, trace |-> trace]
  ELSE LET variant == trace.Variants[v]
           id == makeTraceID(trace, variant)
           tl == variant.Timeline
       IN  IF Len(tl) = 0 THEN [ok |-> FALSE, acts |-> acts, tps |-> tps, trace |-> trace]
           ELSE The({mergeVariants(
                       acts \o addTraceTimelineToScript(id, tl, 1, tl[1].StartTs),
                       storeProducer(tps, id,
                         addTraceToConfig(d.span, tl[1].StartTs, tl[Len(tl)].EndTs)),
                       [trace EXCEPT !.Exemplar = d.exemplar], v + 1) :
                     d \in {duplicateSpans(trace.Exemplar, variant)}})

\* trace is the trace as the caller holds it after the call
mergeTrace(acts, tps, trace) ==
  IF Len(trace.Variants) = 0
  THEN [ok |-> FALSE, acts |-> acts, tps |-> tps, trace |-> trace]
  ELSE mergeVariants(acts, tps, trace, 1)

RECURSIVE mergeMetrics(_, _, _)
mergeMetrics(acts, metrics, m) ==
  IF m > Len(metrics) THEN [ok |-> TRUE, acts |-> acts]
  ELSE The({IF ~r.ok THEN r ELSE mergeMetrics(r.acts, metrics, m + 1) :
            r \in {mergeMetric(acts, metrics[m], 1)}})

RECURSIVE mergeTraces(_, _, _, _)
mergeTraces(acts, tps, traces, t) ==
  IF t > Len(traces) THEN [ok |-> TRUE, acts |-> acts, tps |-> tps, traces |-> traces]
  ELSE The({IF ~r.ok
            THEN [ok |-> FALSE, acts |-> r.acts, tps |-> r.tps,
                  traces |-> [traces EXCEPT ![t] = r.trace]]
            ELSE mergeTraces(r.acts, r.tps, [traces EXCEPT ![t] = r.trace], t + 1) :
            r \in {mergeTrace(acts, tps, traces[t])}})

\* Timeline.MergeIntoScript on a new Script
MergeIntoScript(doc) ==
  The({IF ~m.ok THEN [ok |-> FALSE, acts |-> m.acts, tps |-> EmptyMap,
                       traces |-> doc.traces]
       ELSE mergeTraces(m.acts, EmptyMap, doc.traces, 1) :
       m \in {mergeMetrics(<<>>, doc.metrics, 1)}})

\* ------------------------------------------------------------------- state
VARIABLES
  pc,                \* "new", "running", "done" or "failed": where Simulate is
  actions,           \* Script.actions
  cfg,               \* config.Config: Duration and Seed
  from,              \* Script.from
  emitters,          \* the number of registered emitters
  duration,          \* Script.duration
  now,               \* the loop variable of run, in seconds
  metricGenerators,  \* Script.metricGenerators
  metricProducers,   \* Script.metricProducers
  traceProducers,    \* Script.traceProducers
  rs,                \* RunState: Tick, CurrentAction, RND
  idRNG,             \* traceproducer.idRNG
  log,               \* history: one record per tick executed
  twin               \* a second run of the same prepared script, if twin.on

vars == <<pc, actions, cfg, from, emitters, duration, now, metricGenerators,
          metricProducers, traceProducers, rs, idRNG, log, twin>>

TheWorld ==
  World(metricGenerators, metricProducers, traceProducers, rs.CurrentAction,
        rs.RND, idRNG)

InitRun ==
  /\ pc = "new"
  /\ actions \in Scripts
  /\ \E su \in Setups :
       /\ cfg = [Duration |-> su.Duration, Seed |-> su.Seed,
                 WallclockStart |-> su.WallclockStart]
       /\ from = su.from
       /\ emitters = su.emitters
       /\ traceProducers = su.traces
       /\ idRNG = MakeRNG(su.clock)
  /\ duration = 0
  /\ now = 0
  /\ metricGenerators = EmptyMap
  /\ metricProducers = EmptyMap
  /\ rs = [Tick |-> 0, CurrentAction |-> 0, RND |-> 0, Wallclock |-> 0]
  /\ log = <<>>

NoTwin == [on |-> FALSE]

Init == InitRun /\ twin = NoTwin

\* run's choice of the seed
runSeeds == IF cfg.Seed = 0 THEN ClockSeeds ELSE {cfg.Seed}

\* the values time.Now() can deliver to run
WallclockNows == {50 * Second, 51 * Second}

\* run's choice of the wallclock start
runStarts == IF cfg.WallclockStart = 0 THEN WallclockNows ELSE {cfg.WallclockStart}

\* Simulate up to the run loop: Prepare, then run's set-up of the RunState
Simulate ==
  /\ pc = "new"
  /\ UNCHANGED <<from, emitters, now, metricProducers, traceProducers, idRNG,
                 log, twin>>
  /\ IF Len(actions) = 0
     THEN /\ pc' = "failed"
          /\ UNCHANGED <<actions, cfg, duration, metricGenerators, rs>>
     ELSE \E sorted \in SortFunc(actions) : \E seed \in runSeeds :
          \E start \in runStarts :
            LET d == calculateDuration(cfg.Duration, sorted)
                g == createGenerators(sorted, 1, metricGenerators)
            IN  /\ actions' = sorted
                /\ duration' = d.d
                /\ metricGenerators' = IF d.ok THEN g.gens ELSE metricGenerators
                /\ pc' = IF d.ok /\ g.ok THEN "running" ELSE "failed"
                /\ cfg' = IF d.ok /\ g.ok
                          THEN [cfg EXCEPT !.WallclockStart = start]
                          ELSE cfg
                /\ rs' = IF d.ok /\ g.ok
                         THEN [Tick |-> 0, CurrentAction |-> 0, RND |-> MakeRNG(seed),
                               Wallclock |-> 0]
                         ELSE rs

\* int64(rs.Duration.Seconds())
seconds == duration \div Second

\* the loop of run after tick returned: an error ends the run, the last
\* second ends it, otherwise the loop goes on
runAfterTick_IgnoreError(ok, n, last) == IF n = last THEN "done" ELSE "running"

runAfterTick(ok, n, last) ==
  IF ~ok THEN "failed" ELSE IF n = last THEN "done" ELSE "running"

\* Time.Add
Add_NoTick(t, d) == t

Add(t, d) == t + d

\* one iteration of the loop of run
Tick ==
  /\ pc = "running"
  /\ ~twin.on
  /\ \E in \in TickInputs(TheWorld, actions, now * Second, emitters) :
       \E t \in {tick(TheWorld, actions, now * Second, from, emitters, in)} :
           /\ metricGenerators' = t.w.gens
           /\ metricProducers' = t.w.prods
           /\ traceProducers' = t.w.tps
           /\ rs' = [Tick |-> now * Second, CurrentAction |-> t.w.cur, RND |-> t.w.rnd,
                     Wallclock |-> Add(cfg.WallclockStart, now * Second)]
           /\ idRNG' = t.w.idr
           /\ log' = Append(log, t.rec @@
                            [wallclock |-> Add(cfg.WallclockStart, now * Second)])
           /\ pc' = runAfterTick(t.rec.ok, now, seconds)
  /\ now' = IF pc' = "running" THEN now + 1 ELSE now
  /\ UNCHANGED <<actions, cfg, from, emitters, duration, twin>>

Next == Simulate \/ Tick

Spec == Init /\ [][Next]_vars

\* ------------------------------------------------------------- two runs
\* A second run of the same prepared script with the same seed, executed in
\* step with the first.  The two processes share nothing: each ranges over
\* its own maps and seeds its own span-ID source from its own clock.  The
\* emitters behave alike in both.
InitTwin ==
  /\ InitRun
  /\ cfg.Seed # 0
  /\ twin \in {[on |-> TRUE, started |-> FALSE, idr |-> MakeRNG(c)] : c \in ClockSeeds}

\* the second run's objects: those Prepare and run's set-up left, until its
\* first tick has been executed
TwinWorld ==
  IF twin.started THEN twin.w ELSE [TheWorld EXCEPT !.idr = twin.idr]

TwinTick ==
  /\ pc = "running"
  /\ twin.on
  /\ \E in \in TickInputs(TheWorld, actions, now * Second, emitters) :
     \E in2 \in TickInputs(TwinWorld, actions, now * Second, emitters) :
       /\ in2.fail = in.fail
       /\ \E t \in {tick(TheWorld, actions, now * Second, from, emitters, in)} :
          \E t2 \in {tick(TwinWorld, actions, now * Second, from, emitters, in2)} :
            /\ metricGenerators' = t.w.gens
            /\ metricProducers' = t.w.prods
            /\ traceProducers' = t.w.tps
            /\ rs' = [Tick |-> now * Second, CurrentAction |-> t.w.cur,
                      RND |-> t.w.rnd,
                      Wallclock |-> Add(cfg.WallclockStart, now * Second)]
            /\ idRNG' = t.w.idr
            /\ log' = Append(log, t.rec)
            /\ twin' = [on |-> TRUE, started |-> TRUE, idr |-> twin.idr, w |-> t2.w,
                        log |-> (IF twin.started THEN twin.log ELSE <<>>) \o <<t2.rec>>]
            /\ pc' = runAfterTick(t.rec.ok /\ t2.rec.ok, now, seconds)
  /\ now' = IF pc' = "running" THEN now + 1 ELSE now
  /\ UNCHANGED <<actions, cfg, from, emitters, duration>>

NextTwin == Simulate \/ TwinTick

SpecTwin == InitTwin /\ [][NextTwin]_vars

\* ------------------------------------------------- one generator on its own
\* the number of consecutive Emit calls made on the generator
MaxEmits == 2

\* specs of sample generators of every kind
SampleSpecs ==
  { [type |-> "constant", value |-> 3],
    [type |-> "ramp", start |-> 0, target |-> 8, duration |-> 2 * Second],
    [type |-> "randomWalk", target |-> 0, stepSize |-> 4, elasticity |-> 50,
     variation |-> 10],
    [type |-> "normalNoise", target |-> 5, variation |-> 6],
    [type |-> "normalNoise", target |-> 5, variation |-> 6, direction |-> "negative"],
    [type |-> "poissonNoise", target |-> 2, variation |-> 1],
    [type |-> "poissonNoise", target |-> 36, variation |-> 40, direction |-> "both"],
    [type |-> "spikyNoise", pStart |-> 8, pEnd |-> 8] }

\* the generators CreateMetricGenerator makes of the sample specs
SampleGenerators ==
  {c.g : c \in {n \in {CreateMetricGenerator(Action("g1", 0, 0, "metricGenerator", sp)) :
                         sp \in SampleSpecs} : n.ok}}

\* the incoming values handed to Emit
Incomings == {0, 1, 5}

InitEmit ==
  /\ pc = "emit"
  /\ metricGenerators \in {[id \in {"g1"} |-> g] : g \in SampleGenerators}
  /\ rs \in [Tick : {0, Second, 3 * Second}, CurrentAction : {0}, RND : 0..(RndMod - 1)]
  /\ actions = <<>>
  /\ cfg = [Duration |-> 0, Seed |-> 0, WallclockStart |-> 0]
  /\ from = 0
  /\ emitters = 0
  /\ duration = 0
  /\ now = 0
  /\ metricProducers = EmptyMap
  /\ traceProducers = EmptyMap
  /\ idRNG = 0
  /\ log = <<>>
  /\ twin = NoTwin

\* one call generators[name].Emit(state, incoming), as calculateValue makes
\* it; the record also holds what the same call returns for incoming 0
EmitStep ==
  /\ pc = "emit"
  /\ Len(log) < MaxEmits
  /\ \E x \in Incomings :
       \E e \in {Emit(metricGenerators["g1"], rs.Tick, rs.RND, x)} :
         /\ metricGenerators' = [metricGenerators EXCEPT !["g1"] = e.g]
         /\ rs' = [rs EXCEPT !.RND = e.rnd, !.Tick = rs.Tick + Second]
         /\ log' = Append(log, [g |-> metricGenerators["g1"], tick |-> rs.Tick,
                                rnd |-> rs.RND, incoming |-> x, out |-> e.out,
                                zero |-> Emit(metricGenerators["g1"], rs.Tick,
                                              rs.RND, 0)])
  /\ UNCHANGED <<pc, actions, cfg, from, emitters, duration, now, metricProducers,
                 traceProducers, idRNG, twin>>

NextEmit == EmitStep

SpecEmit == InitEmit /\ [][NextEmit]_vars

\* --------------------------------------------------- runs of trace scripts
\* the traceRate actions the sample trace scripts are made of
TraceMenu ==
  << Action("t1", Second, 3 * Second, "traceRate", [rate |-> 3 * RateScale]),
     Action("t1", Second, 2 * Second, "traceRate", [rate |-> 1 * RateScale]),
     Action("t1", 2 * Second, 4 * Second, "traceRate", [rate |-> 0]),
     Action("t1", 2 * Second, 3 * Second, "traceRate",
            [rate |-> 2 * RateScale, start |-> 5 * RateScale + 1]),
     Action("t1", Second, 0, "traceRate", EmptyMap),
     Action("t2", 0, Second, "traceRate", [rate |-> 1 * RateScale]) >>

TraceScripts ==
  {[k \in 1..Cardinality(S) |-> TraceMenu[nth(S, k)]] :
     S \in {T \in SUBSET (1..Len(TraceMenu)) : Cardinality(T) <= MaxActions}}

OffExemplar == [Ref |-> "off", ok |-> TRUE, Children |-> <<>>]

\* two trace producers registered before Simulate, one of them disabled
TwoTraces ==
  [id \in {"t0", "t1"} |->
     IF id = "t1" THEN OneTrace["t1"]
     ELSE NewTraceProducer([At |-> 0, To |-> 4 * Second, Exemplar |-> OffExemplar,
                            Disabled |-> TRUE, Rate |-> 2 * RateScale])]

\* one trace producer whose window opens after the first tick
LateTrace ==
  [id \in {"t1"} |-> NewTraceProducer([At |-> 2 * Second, To |-> 3 * Second,
                                       Exemplar |-> SampleExemplar,
                                       Disabled |-> FALSE, Rate |-> 2 * RateScale])]

\* an exemplar with a grandchild
DeepExemplar ==
  [Ref |-> "root", ok |-> TRUE,
   Children |-> <<[Ref |-> "a", ok |-> TRUE, Children |-> <<Leaf("c")>>], Leaf("b")>>]

\* one trace producer that replays DeepExemplar
DeepTrace ==
  [id \in {"t1"} |-> NewTraceProducer([At |-> 0, To |-> 3 * Second,
                                       Exemplar |-> DeepExemplar,
                                       Disabled |-> FALSE, Rate |-> 2 * RateScale])]

TraceSetups ==
  { Setup(0, 3, 0, 1, OneTrace, 1, 100 * Second),
    Setup(4 * Second, 3, 0, 1, TwoTraces, 7, 100 * Second),
    Setup(4 * Second, 3, Second, 1, LateTrace, 1, 0),
    Setup(2 * Second, 5, 0, 1, DeepTrace, 2, 0) }

InitTrace ==
  /\ pc = "new"
  /\ actions \in TraceScripts
  /\ \E su \in TraceSetups :
       /\ cfg = [Duration |-> su.Duration, Seed |-> su.Seed,
                 WallclockStart |-> su.WallclockStart]
       /\ from = su.from
       /\ emitters = su.emitters
       /\ traceProducers = su.traces
       /\ idRNG = MakeRNG(su.clock)
  /\ duration = 0
  /\ now = 0
  /\ metricGenerators = EmptyMap
  /\ metricProducers = EmptyMap
  /\ rs = [Tick |-> 0, CurrentAction |-> 0, RND |-> 0, Wallclock |-> 0]
  /\ log = <<>>
  /\ twin = NoTwin

SpecTrace == InitTrace /\ [][Next]_vars

\* ------------------------------------------------- compiling a timeline
MaxSegments == 3

\* the timeline entries the sample timelines are made of
SegmentMenu ==
  << Segment("", 0, 2 * Second, FALSE, 0, 10),
     Segment("segment", 0, 4 * Second, TRUE, 5, 20),
     Segment("disable", 2 * Second, 3 * Second, FALSE, 0, 0),
     Segment("disable", 0, 3 * Second, FALSE, 0, 0),
     Segment("", 3 * Second, 5 * Second, FALSE, 0, 0),
     Segment("segment", 0, Second, FALSE, 0, 3),
     Segment("bogus", Second, 2 * Second, FALSE, 0, 1),
     Segment("disable", Second, 6 * Second, FALSE, 0, 0) >>

RECURSIVE SeqsUpTo(_, _)
\* the sequences over S of length at most n
SeqsUpTo(S, n) ==
  IF n = 0 THEN {<<>>}
  ELSE SeqsUpTo(S, n - 1)
       \cup {Append(q, x) : q \in {r \in SeqsUpTo(S, n - 1) : Len(r) = n - 1}, x \in S}

SampleTimelines == SeqsUpTo(Range(SegmentMenu), MaxSegments)

FixedTimeline == <<SegmentMenu[1], SegmentMenu[3], SegmentMenu[5]>>

\* no variant, one variant, or a fixed variant followed by one more
VariantLists(tl) == {<<>>, <<[tag |-> "a", tl |-> tl]>>,
                     <<[tag |-> "b", tl |-> FixedTimeline], [tag |-> "a", tl |-> tl]>>}

MetricDoc(vs) ==
  [metrics |-> <<[Name |-> "m", Type |-> "gauge", Frequency |-> 0,
                  Variants |-> [v \in DOMAIN vs |->
                                  [Attributes |-> vs[v].tag, Timeline |-> vs[v].tl]]]>>,
   traces |-> <<>>]

\* a span of a timeline document
DocSpan(ref, dur, attrs, children) ==
  [Ref |-> ref, ok |-> TRUE, Duration |-> dur, Error |-> FALSE, Attributes |-> attrs,
   Children |-> children]

\* the exemplar of the sample trace
DocExemplar ==
  DocSpan("root", 4, [k1 |-> "v1", k2 |-> "v2"],
          << DocSpan("a", 2, [k1 |-> "v1"], <<DocSpan("c", 1, EmptyMap, <<>>)>>),
             DocSpan("b", 1, EmptyMap, <<>>) >>)

\* the overrides of the sample variants, by the variant's name
OverridesOf(tag) ==
  IF tag = "a"
  THEN [a |-> [duration |-> 3, attributes |-> [k1 |-> Nil, k3 |-> "v3"]],
        c |-> [error |-> TRUE],
        zz |-> [duration |-> 9]]
  ELSE [root |-> [error |-> TRUE, attributes |-> [k2 |-> "w2"]],
        b |-> [duration |-> 5]]

TraceDoc(vs) ==
  [metrics |-> <<>>,
   traces |-> <<[Name |-> "t", Exemplar |-> DocExemplar,
                 Variants |-> [v \in DOMAIN vs |->
                                 [Name |-> vs[v].tag, Timeline |-> vs[v].tl,
                                  Overrides |-> OverridesOf(vs[v].tag)]]]>>]

SampleDocs ==
  UNION {{MetricDoc(vs), TraceDoc(vs)} : vs \in UNION {VariantLists(tl) : tl \in SampleTimelines}}

\* a decoded document, before ParseTimeline's defaulting
InitTimeline ==
  /\ pc = "decoded"
  /\ log \in {<<[op |-> "decode", doc |-> d]>> : d \in SampleDocs}
  /\ actions = <<>>
  /\ cfg = [Duration |-> 0, Seed |-> 0, WallclockStart |-> 0]
  /\ from = 0
  /\ emitters = 0
  /\ duration = 0
  /\ now = 0
  /\ metricGenerators = EmptyMap
  /\ metricProducers = EmptyMap
  /\ traceProducers = EmptyMap
  /\ rs = [Tick |-> 0, CurrentAction |-> 0, RND |-> 0, Wallclock |-> 0]
  /\ idRNG = 0
  /\ twin = NoTwin

\* the rest of ParseTimeline
ParseStep ==
  /\ pc = "decoded"
  /\ pc' = "parsed"
  /\ log' = Append(log, [op |-> "parse", doc |-> ParseTimeline(log[1].doc)])
  /\ UNCHANGED <<actions, cfg, from, emitters, duration, now, metricGenerators,
                 metricProducers, traceProducers, rs, idRNG, twin>>

\* MergeIntoScript on a new Script
MergeStep ==
  /\ pc = "parsed"
  /\ \E r \in {MergeIntoScript(log[2].doc)} :
       /\ pc' = IF r.ok THEN "merged" ELSE "failed"
       /\ actions' = r.acts
       /\ traceProducers' = r.tps
       /\ log' = Append(log, [op |-> "merge", ok |-> r.ok, traces |-> r.traces])
  /\ UNCHANGED <<cfg, from, emitters, duration, now, metricGenerators,
                 metricProducers, rs, idRNG, twin>>

NextTimeline == ParseStep \/ MergeStep

SpecTimeline == InitTimeline /\ [][NextTimeline]_vars

\* ------------------------------------------------ the ten-minute ramp run
\* the script of one ramp 0 -> 100 over 10 m and one gauge sampling it every
\* 10 s, run for a configured duration of 10 m
RampScript ==
  << Action("g1", 0, 0, "metricGenerator",
            [type |-> "ramp", start |-> 0, target |-> 100, duration |-> 600 * Second]),
     Action("p1", 0, 0, "metric",
            [type |-> "gauge", generators |-> <<"g1">>, frequency |-> 10 * Second]) >>

InitScenario ==
  /\ pc = "new"
  /\ actions = RampScript
  /\ cfg = [Duration |-> 600 * Second, Seed |-> 3, WallclockStart |-> 100 * Second]
  /\ from = 0
  /\ emitters = 1
  /\ traceProducers = NoTraces
  /\ idRNG = MakeRNG(1)
  /\ duration = 0
  /\ now = 0
  /\ metricGenerators = EmptyMap
  /\ metricProducers = EmptyMap
  /\ rs = [Tick |-> 0, CurrentAction |-> 0, RND |-> 0, Wallclock |-> 0]
  /\ log = <<>>
  /\ twin = NoTwin

SpecScenario == InitScenario /\ [][Next]_vars

\* ------------------------------------------------------ one ramp on its own
\* the last tick, in half seconds, at which the ramp is reconfigured or sampled
MaxRampTick == 10

\* the ramps NewMetricRamp makes: anchored at 0 or 1.5 s, rising or falling,
\* over 2 s or 3 s, with every combination of the two zero flags
SampleRamps ==
  {c.g : c \in {NewMetricRamp(at, [type |-> "ramp", start |-> st, target |-> 8,
                                   duration |-> du, prestart_zero |-> pre,
                                   postend_zero |-> post]) :
                  at \in {0, Second + 1}, st \in {0, 10},
                  du \in {2 * Second, 3 * Second}, pre \in BOOLEAN, post \in BOOLEAN}}

\* the specs a metricGenerator action reconfigures a ramp with
RampChanges ==
  { [target |-> 20],
    [start |-> 3, target |-> 1, duration |-> 2 * Second],
    [prestart_zero |-> TRUE],
    [duration |-> 0] }

RampIncomings == {0, 5}

InitRamp ==
  /\ pc = "ramp"
  /\ metricGenerators \in {[id \in {"g1"} |-> g] : g \in SampleRamps}
  /\ rs = [Tick |-> 0, CurrentAction |-> 0, RND |-> 0, Wallclock |-> 0]
  /\ actions = <<>>
  /\ cfg = [Duration |-> 0, Seed |-> 0, WallclockStart |-> 0]
  /\ from = 0
  /\ emitters = 0
  /\ duration = 0
  /\ now = 0
  /\ metricProducers = EmptyMap
  /\ traceProducers = EmptyMap
  /\ idRNG = 0
  /\ log = <<>>
  /\ twin = NoTwin

\* generator.Reconfigure(action.At, action.Spec), as tick makes the call
RampReconfigure ==
  /\ pc = "ramp"
  /\ \E T \in 0..MaxRampTick, is \in RampChanges :
       \E c \in {Reconfigure(metricGenerators["g1"], T, is)} :
         /\ metricGenerators' = [metricGenerators EXCEPT !["g1"] = c.g]
         /\ log' = Append(log, [op |-> "reconfigure", g |-> metricGenerators["g1"],
                                at |-> T, is |-> is, ok |-> c.ok, post |-> c.g])
         /\ pc' = IF c.ok THEN "reconfigured" ELSE "failed"
  /\ UNCHANGED <<rs, actions, cfg, from, emitters, duration, now, metricProducers,
                 traceProducers, idRNG, twin>>

\* the calls Emit(state, incoming) at the ticks 0..MaxRampTick, one after the
\* other; MetricRamp.Emit changes neither the ramp nor the random source
RampSample ==
  /\ pc \in {"ramp", "reconfigured"}
  /\ \E x \in RampIncomings :
       log' = Append(log, [op |-> "emit", g |-> metricGenerators["g1"],
                           incoming |-> x,
                           outs |-> [t \in 0..MaxRampTick |->
                                       Emit(metricGenerators["g1"], t, rs.RND, x).out]])
  /\ pc' = "sampled"
  /\ UNCHANGED <<rs, actions, cfg, from, emitters, duration, now, metricGenerators,
                 metricProducers, traceProducers, idRNG, twin>>

NextRamp == RampReconfigure \/ RampSample

SpecRamp == InitRamp /\ [][NextRamp]_vars

\* ------------------------------------- one generator, reconfigured and read
MaxGenSteps == 3

\* specs of random walks and of the three noise generators
GenSpecs ==
  { [type |-> "randomWalk", target |-> 0, stepSize |-> 4, elasticity |-> 50,
     variation |-> 10],
    [type |-> "randomWalk", target |-> 5, stepSize |-> 20, elasticity |-> 0,
     variation |-> 3],
    [type |-> "randomWalk", target |-> 5, stepSize |-> 4, elasticity |-> 200,
     variation |-> 0],
    [type |-> "normalNoise", target |-> 5, variation |-> 6],
    [type |-> "normalNoise", target |-> 5, variation |-> 2, stdDev |-> 3,
     direction |-> "positive"],
    [type |-> "normalNoise", target |-> 5, variation |-> 2, stdDev |-> 3,
     direction |-> "negative"],
    [type |-> "normalNoise", target |-> 1, variation |-> 0, direction |-> "positive"],
    [type |-> "poissonNoise", target |-> 2, variation |-> 1],
    [type |-> "poissonNoise", target |-> 36, variation |-> 40, direction |-> "both"],
    [type |-> "poissonNoise", target |-> 3, variation |-> 5, direction |-> "negative"],
    [type |-> "poissonNoise", target |-> 0, variation |-> 2, direction |-> "both"],
    [type |-> "poissonNoise", target |-> -2, variation |-> 1, direction |-> "both"],
    [type |-> "spikyNoise", pStart |-> 8, pEnd |-> 8],
    [type |-> "spikyNoise", pStart |-> 0, pEnd |-> 8],
    [type |-> "spikyNoise", pStart |-> RndMod, pEnd |-> 0, peakTarget |-> 3,
     variation |-> 1, direction |-> "negative"],
    [type |-> "spikyNoise", pStart |-> RndMod, pEnd |-> RndMod, peakTarget |-> -5,
     variation |-> 1] }

\* the generators CreateMetricGenerator makes of GenSpecs
GenGenerators ==
  {c.g : c \in {n \in {CreateMetricGenerator(Action("g1", 0, 0, "metricGenerator", sp)) :
                         sp \in GenSpecs} : n.ok}}

\* the specs of later metricGenerator actions with the same id, by the kind
\* of generator they reach
GenChanges(kind) ==
  CASE kind = "randomWalk" ->
         { [target |-> 20], [variation |-> 1], [target |-> 100, stepSize |-> 0] }
    [] kind = "normalNoise" ->
         { [direction |-> "negative"], [variation |-> 1, stdDev |-> -1],
           [direction |-> "up"] }
    [] kind = "poissonNoise" ->
         { [direction |-> "both"], [target |-> 4], [variation |-> -1] }
    [] OTHER ->
         { [pStart |-> 0], [pEnd |-> RndMod], [pStart |-> RndMod + 1] }

GenIncomings == {0, 5}

InitGen ==
  /\ pc = "gen"
  /\ metricGenerators \in {[id \in {"g1"} |-> g] : g \in GenGenerators}
  /\ rs \in [Tick : {0}, CurrentAction : {0}, RND : 0..(RndMod - 1), Wallclock : {0}]
  /\ actions = <<>>
  /\ cfg = [Duration |-> 0, Seed |-> 0, WallclockStart |-> 0]
  /\ from = 0
  /\ emitters = 0
  /\ duration = 0
  /\ now = 0
  /\ metricProducers = EmptyMap
  /\ traceProducers = EmptyMap
  /\ idRNG = 0
  /\ log = <<>>
  /\ twin = NoTwin

\* generators[id].Reconfigure(action.At, action.Spec), as dispatch makes the
\* call; an error ends the run
GenReconfigure ==
  /\ pc = "gen"
  /\ Len(log) < MaxGenSteps
  /\ \E is \in GenChanges(metricGenerators["g1"].kind) :
       \E c \in {Reconfigure(metricGenerators["g1"], rs.Tick, is)} :
         /\ metricGenerators' = [metricGenerators EXCEPT !["g1"] = c.g]
         /\ log' = Append(log, [op |-> "reconfigure", g |-> metricGenerators["g1"],
                                is |-> is, ok |-> c.ok, post |-> c.g])
         /\ pc' = IF c.ok THEN "gen" ELSE "failed"
  /\ UNCHANGED <<rs, actions, cfg, from, emitters, duration, now, metricProducers,
                 traceProducers, idRNG, twin>>

\* generators[name].Emit(state, incoming), as calculateValue makes the call
GenEmit ==
  /\ pc = "gen"
  /\ Len(log) < MaxGenSteps
  /\ \E x \in GenIncomings :
       \E e \in {Emit(metricGenerators["g1"], rs.Tick, rs.RND, x)} :
         /\ metricGenerators' = [metricGenerators EXCEPT !["g1"] = e.g]
         /\ rs' = [rs EXCEPT !.RND = e.rnd, !.Tick = rs.Tick + Second]
         /\ log' = Append(log, [op |-> "emit", g |-> metricGenerators["g1"],
                                rnd |-> rs.RND, incoming |-> x, out |-> e.out,
                                post |-> e.g])
  /\ UNCHANGED <<pc, actions, cfg, from, emitters, duration, now, metricProducers,
                 traceProducers, idRNG, twin>>

NextGen == GenReconfigure \/ GenEmit

SpecGen == InitGen /\ [][NextGen]_vars

\* ------------------------------- generators made and reconfigured, good or bad
MaxConfigSteps == 3

\* specs of metricGenerator actions of every kind, within and outside the
\* numeric ranges
ConfigSpecs ==
  { [type |-> "constant", value |-> 3],
    [type |-> "ramp", start |-> 0, target |-> 8, duration |-> 2 * Second],
    [type |-> "ramp", start |-> 0, target |-> 8, duration |-> 0],
    [type |-> "ramp", start |-> 0, target |-> 8, duration |-> -Second],
    [type |-> "randomWalk", target |-> 0, stepSize |-> 4, elasticity |-> 50,
     variation |-> 10],
    [type |-> "randomWalk", target |-> 0, stepSize |-> 0, variation |-> 10],
    [type |-> "randomWalk", target |-> 0, stepSize |-> -4, variation |-> 10],
    [type |-> "randomWalk", target |-> 0, stepSize |-> 4, variation |-> -2],
    [type |-> "normalNoise", target |-> 5, variation |-> 6, direction |-> "positive"],
    [type |-> "normalNoise", target |-> 5, variation |-> -1],
    [type |-> "poissonNoise", target |-> 2, variation |-> 1],
    [type |-> "poissonNoise", target |-> 2, variation |-> -1],
    [type |-> "spikyNoise", pStart |-> 8, pEnd |-> 8],
    [type |-> "spikyNoise", pStart |-> -1],
    [type |-> "spikyNoise", pStart |-> RndMod + 1],
    [type |-> "spikyNoise", pEnd |-> -1],
    [type |-> "spikyNoise", pEnd |-> RndMod + 1],
    [type |-> "spikyNoise", variation |-> -1] }

\* the specs of later metricGenerator actions with the same id, by the kind
\* of generator they reach
ConfigChanges(kind) ==
  CASE kind = "constant" ->
         { [value |-> 7], [value |-> 7, bogus |-> 1] }
    [] kind = "ramp" ->
         { [target |-> 4], [target |-> 4, duration |-> 0],
           [start |-> 2, duration |-> -Second], [target |-> 4, bogus |-> 1] }
    [] kind = "randomWalk" ->
         { [target |-> 20], [variation |-> -1], [target |-> 100, stepSize |-> 0],
           [stepSize |-> -1], [target |-> 50, bogus |-> 1] }
    [] kind = "normalNoise" ->
         { [variation |-> 1], [variation |-> -1, target |-> 9],
           [target |-> 9, direction |-> "up"] }
    [] kind = "poissonNoise" ->
         { [target |-> 4], [variation |-> -2, target |-> 7], [direction |-> "up"] }
    [] OTHER ->
         { [pEnd |-> 0], [pStart |-> -1], [pStart |-> RndMod + 1], [pEnd |-> -1],
           [pEnd |-> RndMod + 1], [variation |-> -1, peakTarget |-> 4] }

InitConfig ==
  /\ pc = "new"
  /\ metricGenerators = EmptyMap
  /\ rs \in [Tick : {0}, CurrentAction : {0}, RND : 0..(RndMod - 1), Wallclock : {0}]
  /\ actions = <<>>
  /\ cfg = [Duration |-> 0, Seed |-> 0, WallclockStart |-> 0]
  /\ from = 0
  /\ emitters = 0
  /\ duration = 0
  /\ now = 0
  /\ metricProducers = EmptyMap
  /\ traceProducers = EmptyMap
  /\ idRNG = 0
  /\ log = <<>>
  /\ twin = NoTwin

\* generator.CreateMetricGenerator(action), as Prepare makes the call; an
\* error ends the run
ConfigCreate ==
  /\ pc = "new"
  /\ \E is \in ConfigSpecs :
       \E c \in {CreateMetricGenerator(Action("g1", 0, 0, "metricGenerator", is))} :
         /\ metricGenerators' = IF c.ok THEN [id \in {"g1"} |-> c.g] ELSE metricGenerators
         /\ log' = Append(log, [op |-> "create", is |-> is, ok |-> c.ok])
         /\ pc' = IF c.ok THEN "made" ELSE "failed"
  /\ UNCHANGED <<rs, actions, cfg, from, emitters, duration, now, metricProducers,
                 traceProducers, idRNG, twin>>

\* generators[id].Reconfigure(action.At, action.Spec), as tick makes the
\* call; an error ends the run
ConfigReconfigure ==
  /\ pc = "made"
  /\ Len(log) < MaxConfigSteps
  /\ \E is \in ConfigChanges(metricGenerators["g1"].kind) :
       \E c \in {Reconfigure(metricGenerators["g1"], rs.Tick, is)} :
         /\ metricGenerators' = [metricGenerators EXCEPT !["g1"] = c.g]
         /\ log' = Append(log, [op |-> "reconfigure", g |-> metricGenerators["g1"],
                                at |-> rs.Tick, is |-> is, ok |-> c.ok, post |-> c.g])
         /\ pc' = IF c.ok THEN "made" ELSE "failed"
  /\ UNCHANGED <<rs, actions, cfg, from, emitters, duration, now, metricProducers,
                 traceProducers, idRNG, twin>>

\* generators[name].Emit(state, 0) at the next tick
ConfigEmit ==
  /\ pc = "made"
  /\ Len(log) < MaxConfigSteps
  /\ \E e \in {Emit(metricGenerators["g1"], rs.Tick + Second, rs.RND, 0)} :
       /\ metricGenerators' = [metricGenerators EXCEPT !["g1"] = e.g]
       /\ rs' = [rs EXCEPT !.RND = e.rnd, !.Tick = rs.Tick + Second]
       /\ log' = Append(log, [op |-> "emit", g |-> metricGenerators["g1"],
                              rnd |-> rs.RND, out |-> e.out, post |-> e.g])
  /\ UNCHANGED <<pc, actions, cfg, from, emitters, duration, now, metricProducers,
                 traceProducers, idRNG, twin>>

NextConfig == ConfigCreate \/ ConfigReconfigure \/ ConfigEmit

SpecConfig == InitConfig /\ [][NextConfig]_vars

\* ------------------------------------------------- one gauge producer made
\* specs of metric actions
GaugeSpecs ==
  { NoSpec,
    [generators |-> <<>>],
    [generators |-> <<"g1">>],
    [generators |-> <<"g1", "g2">>],
    [generators |-> <<"g9">>],
    [generators |-> <<"g1", "g9">>],
    [generators |-> <<"g1">>, frequency |-> 2 * Second],
    [generators |-> <<"g1">>, name |-> "other"],
    [generators |-> <<"g1">>, bogus |-> 1],
    [generators |-> <<>>, bogus |-> 1],
    [generators |-> <<"g9">>, bogus |-> 1] }

\* the generators registered when the producer is made
GaugeRegistries ==
  {[id \in ids |-> NewMetricConstant(0, [type |-> "constant", value |-> 3]).g] :
     ids \in {{}, {"g1"}, {"g1", "g2"}}}

InitGauge ==
  /\ pc = "new"
  /\ metricGenerators \in GaugeRegistries
  /\ actions \in {<<Action(name, 0, to, "metric", sp)>> :
                     name \in {"", "m1"}, to \in {0, 3 * Second}, sp \in GaugeSpecs}
  /\ rs = [Tick |-> 0, CurrentAction |-> 0, RND |-> 0, Wallclock |-> 0]
  /\ cfg = [Duration |-> 0, Seed |-> 0, WallclockStart |-> 0]
  /\ from = 0
  /\ emitters = 0
  /\ duration = 0
  /\ now = 0
  /\ metricProducers = EmptyMap
  /\ traceProducers = EmptyMap
  /\ idRNG = 0
  /\ log = <<>>
  /\ twin = NoTwin

\* NewMetricGauge(generators, action.ID, action)
GaugeCreate ==
  /\ pc = "new"
  /\ \E n \in {NewMetricGauge(metricGenerators, actions[1].ID, actions[1])} :
       /\ metricProducers' = IF n.ok THEN storeProducer(metricProducers, actions[1].ID, n.p)
                              ELSE metricProducers
       /\ log' = Append(log, [op |-> "gauge", name |-> actions[1].ID,
                              mes |-> actions[1], res |-> n])
       /\ pc' = IF n.ok THEN "made" ELSE "failed"
  /\ UNCHANGED <<rs, actions, cfg, from, emitters, duration, now, metricGenerators,
                 traceProducers, idRNG, twin>>

SpecGauge == InitGauge /\ [][GaugeCreate]_vars

\* ------------------------------------------------- compiled scripts, run
\* the string an ID of the compiler stands for: "h" and the variant's
\* attributes for the hash makeMetricID returns, name-variant for a trace ID,
\* then the suffix of a generator ID
idString(id) ==
  LET base == IF id[1] = "m" THEN "h" \o id[2] ELSE id[1] \o "-" \o id[2]
  IN  CASE id[3] = "" -> base
        [] id[3] = "noise" -> base \o "_noise"
        [] id[3] = "ramp" -> base \o "_ramp_" \o ToString(id[4])

\* the compiled actions with their IDs written out
namedActions(acts) ==
  [i \in DOMAIN acts |->
     [acts[i] EXCEPT
        !.ID = idString(@),
        !.Spec = IF "generators" \in DOMAIN @
                 THEN [@ EXCEPT !.generators = [k \in DOMAIN @ |-> idString(@[k])]]
                 ELSE @]]

\* the compiled trace producers with their IDs written out
namedProducers(tps) ==
  [n \in {idString(k) : k \in DOMAIN tps} |->
     tps[CHOOSE k \in DOMAIN tps : idString(k) = n]]

\* the timelines of the documents that are compiled and run
RunTimelines ==
  { <<Segment("segment", 0, 2 * Second, TRUE, 4, 8),
      Segment("segment", 0, 4 * Second, FALSE, 0, 0)>>,
    <<Segment("segment", 0, 3 * Second, FALSE, 0, 6),
      Segment("segment", 0, 5 * Second, TRUE, 2, 4),
      Segment("segment", 0, 7 * Second, FALSE, 0, 4)>>,
    <<Segment("segment", 0, 4 * Second, FALSE, 0, 8)>>,
    <<Segment("segment", Second, 3 * Second, TRUE, 8, 4)>>,
    <<Segment("segment", 0, 2 * Second, FALSE, 0, 4),
      Segment("disable", 2 * Second, 0, FALSE, 0, 0),
      Segment("segment", 4 * Second, 6 * Second, FALSE, 0, 8)>>,
    <<Segment("disable", 0, 0, FALSE, 0, 0),
      Segment("segment", 2 * Second, 4 * Second, FALSE, 0, 8)>>,
    <<Segment("segment", 2 * Second, 4 * Second, FALSE, 0, 8),
      Segment("disable", Second, 0, FALSE, 0, 0)>>,
    <<Segment("segment", 0, 2 * Second, FALSE, 0, 4),
      Segment("bogus", 0, 3 * Second, FALSE, 0, 4)>> }

\* the second variant of the documents of two variants
ShortTimeline == <<Segment("segment", 0, 2 * Second, TRUE, 2, 6)>>

\* a metric that emits every second
SecondlyDoc(vs) == [MetricDoc(vs) EXCEPT !.metrics[1].Frequency = Second]

\* the documents: one metric of one variant, or one trace of one variant or
\* of two
RunDocs ==
  UNION {{SecondlyDoc(<<[tag |-> "a", tl |-> tl]>>),
          TraceDoc(<<[tag |-> "a", tl |-> tl]>>),
          TraceDoc(<<[tag |-> "b", tl |-> ShortTimeline], [tag |-> "a", tl |-> tl]>>)} :
         tl \in RunTimelines}

\* the seeds of the runs
RunSeeds == {3, 6}

\* a new Script that a timeline document was merged into without an error,
\* handed to Simulate
InitCompiled ==
  /\ pc = "new"
  /\ \E doc \in RunDocs : \E r \in {MergeIntoScript(ParseTimeline(doc))} :
       /\ r.ok
       /\ actions = namedActions(r.acts)
       /\ traceProducers = namedProducers(r.tps)
  /\ cfg \in {[Duration |-> 0, Seed |-> s, WallclockStart |-> 100 * Second] :
              s \in RunSeeds}
  /\ from = 0
  /\ emitters = 1
  /\ idRNG = MakeRNG(1)
  /\ duration = 0
  /\ now = 0
  /\ metricGenerators = EmptyMap
  /\ metricProducers = EmptyMap
  /\ rs = [Tick |-> 0, CurrentAction |-> 0, RND |-> 0, Wallclock |-> 0]
  /\ log = <<>>
  /\ twin = NoTwin

SpecCompiled == InitCompiled /\ [][Next]_vars

\* ------------------------------------------- the sampling loops, by step
\* The three loops that draw until a condition holds, one iteration per
\* step, with a random source that can deliver any value at any draw.  The
\* call in progress is log[1]: the loop, its arguments, its locals, the
\* number of draws made (counted up to MaxCounted) and the value returned.
MaxCounted == 3

\* the values r.NormFloat64() can deliver
NormDraws == -3..3

\* the values r.Float64() can deliver, in units of 1 / RndMod
FloatDraws == 0..(RndMod - 1)

\* the standard deviations of the sample generators
LoopStdDevs == {0, 1, 2}

\* the rates of the sample Poisson calls
LoopLambdas == {0, 1, 3, KnuthLimit + 6}

counted(n) == IF n < MaxCounted THEN n + 1 ELSE n

theCall == log[1]

\* getNormalNoise entering its loop whatever the standard deviation is
skipsLoop_Never(direction, stdDev) == FALSE

\* getNormalNoise's test before its loop
skipsLoop(direction, stdDev) == stdDev <= 0

\* the two tests that break the loop of getNormalNoise
signMatches(direction, noise) ==
  \/ direction = "positive" /\ noise >= 0
  \/ direction = "negative" /\ noise <= 0

InitLoops ==
  /\ pc = "idle"
  /\ log = <<>>
  /\ actions = <<>>
  /\ cfg = [Duration |-> 0, Seed |-> 0, WallclockStart |-> 0]
  /\ from = 0
  /\ emitters = 0
  /\ duration = 0
  /\ now = 0
  /\ metricGenerators = EmptyMap
  /\ metricProducers = EmptyMap
  /\ traceProducers = EmptyMap
  /\ rs = [Tick |-> 0, CurrentAction |-> 0, RND |-> 0, Wallclock |-> 0]
  /\ idRNG = 0
  /\ twin = NoTwin

loopFrame == <<actions, cfg, from, emitters, duration, now, metricGenerators,
               metricProducers, traceProducers, rs, idRNG, twin>>

\* getNormalNoise up to its loop
getNormalNoise_Call ==
  /\ pc = "idle"
  /\ \E direction \in validDirs, stdDev \in LoopStdDevs, x \in NormDraws :
       LET c == [loop |-> "normal", direction |-> direction, stdDev |-> stdDev,
                 draws |-> 0, out |-> 0]
       IN  IF direction = "both"
           THEN /\ pc' = "returned"
                /\ log' = <<[c EXCEPT !.draws = 1, !.out = x * stdDev]>>
           ELSE IF skipsLoop(direction, stdDev)
           THEN pc' = "returned" /\ log' = <<c>>
           ELSE pc' = "normal" /\ log' = <<c>>
  /\ UNCHANGED loopFrame

\* one iteration of the loop of getNormalNoise, the source delivering x
getNormalNoise_Loop(x) ==
  /\ pc = "normal"
  /\ LET noise == x * theCall.stdDev
     IN  /\ pc' = IF signMatches(theCall.direction, noise) THEN "returned" ELSE "normal"
         /\ log' = <<[theCall EXCEPT !.draws = counted(@), !.out = noise]>>
  /\ UNCHANGED loopFrame

\* samplePoisson up to its loop
samplePoisson_Call ==
  /\ pc = "idle"
  /\ \E lambda \in LoopLambdas, x \in NormDraws :
       LET c == [loop |-> "poisson", lambda |-> lambda, L |-> ExpNeg(lambda), k |-> 0,
                 p |-> PoissonScale, draws |-> 0, out |-> 0]
       IN  IF lambda <= 0 THEN pc' = "returned" /\ log' = <<c>>
           ELSE IF lambda < KnuthLimit THEN pc' = "knuth" /\ log' = <<c>>
           ELSE /\ pc' = "returned"
                /\ log' = <<[c EXCEPT !.draws = 1, !.out = x * ISqrt(lambda) + lambda]>>
  /\ UNCHANGED loopFrame

\* the test of the loop of samplePoisson and, if it holds, one iteration,
\* the source delivering u
samplePoisson_Loop(u) ==
  /\ pc = "knuth"
  /\ IF theCall.p > theCall.L
     THEN /\ pc' = "knuth"
          /\ log' = <<[theCall EXCEPT !.k = @ + 1, !.p = (@ * u) \div RndMod,
                                      !.draws = counted(@)]>>
     ELSE /\ pc' = "returned"
          /\ log' = <<[theCall EXCEPT !.out = theCall.k - 1]>>
  /\ UNCHANGED loopFrame

\* a call of scaledKindaNormal
scaledKindaNormal_Call ==
  /\ pc = "idle"
  /\ pc' = "jitter"
  /\ log' = <<[loop |-> "jitter", draws |-> 0, out |-> 0]>>
  /\ UNCHANGED loopFrame

\* one iteration of the loop of scaledKindaNormal, the source delivering x;
\* out is the numerator of x / maxSigma
scaledKindaNormal_Loop(x) ==
  /\ pc = "jitter"
  /\ pc' = IF Min2(x, maxSigma) >= 0 THEN "returned" ELSE "jitter"
  /\ log' = <<[theCall EXCEPT !.draws = counted(@), !.out = Min2(x, maxSigma)]>>
  /\ UNCHANGED loopFrame

NextLoops ==
  \/ getNormalNoise_Call
  \/ \E x \in NormDraws : getNormalNoise_Loop(x)
  \/ samplePoisson_Call
  \/ \E u \in FloatDraws : samplePoisson_Loop(u)
  \/ scaledKindaNormal_Call
  \/ \E x \in NormDraws : scaledKindaNormal_Loop(x)

SpecLoops == InitLoops /\ [][NextLoops]_vars

\* a fair random source: a loop that goes on drawing is delivered every value
\* of the source (and the program goes on running)
FairSource ==
  /\ \A x \in NormDraws : WF_vars(getNormalNoise_Loop(x))
  /\ \A x \in NormDraws : WF_vars(scaledKindaNormal_Loop(x))
  /\ WF_vars(\E u \in FloatDraws : samplePoisson_Loop(u))

SpecLoopsFair == SpecLoops /\ FairSource

\* ------------------------------------------------------------------ claims
\* the cursor after the i-th executed tick
cursorAfter(i) == IF i < Len(log) THEN log[i + 1].cursor ELSE rs.CurrentAction

dispatchedBy(r) == actions[r.dispatched]

\* C2: every action is dispatched at the tick equal to its at offset.
C2_AppliedAtItsAt ==
  \A i \in 1..Len(log) :
    log[i].dispatched # 0 => log[i].tick = dispatchedBy(log[i]).At

\* the datapoints of a tick's metric batch, whatever their order in the batch
pointsOf(r) == {r.md[k] : k \in DOMAIN r.md}

\* C3: two runs of the same prepared script with the same non-zero seed give
\* every producer's datapoint the same value at every tick.
C3_SameSeedSameOutputs ==
  (twin.on /\ cfg.Seed # 0 /\ Len(log) > 0) =>
    \A i \in 1..Len(log) : pointsOf(log[i]) = pointsOf(twin.log[i])

\* the calls of producer.Emit that wrote a datapoint under the given ID
emissions(r, id) == {a \in Range(r.asked) : a.id = id /\ a.points # <<>>}

\* C4: two datapoints emitted under one producer ID are at least the
\* producer's frequency apart in tick time, whatever actions were dispatched.
C4_FrequencyApart ==
  \A i, j \in 1..Len(log) :
    i < j =>
      \A a \in Range(log[i].asked), b \in Range(log[j].asked) :
        (a.id = b.id /\ a.points # <<>> /\ b.points # <<>>) =>
          log[j].tick - log[i].tick >= b.pre.spec.frequency

RECURSIVE generatorsByDispatch(_, _, _, _)
\* the generators as the first k actions determine them: the first
\* metricGenerator action of an ID creates, every later one reconfigures
generatorsByDispatch(acts, k, i, gens) ==
  IF i > k THEN gens
  ELSE IF acts[i].Type # "metricGenerator" THEN generatorsByDispatch(acts, k, i + 1, gens)
  ELSE IF acts[i].ID \in DOMAIN gens
  THEN generatorsByDispatch(acts, k, i + 1,
         [gens EXCEPT ![acts[i].ID] = Reconfigure(@, acts[i].At, acts[i].Spec).g])
  ELSE LET c == CreateMetricGenerator(acts[i])
       IN  generatorsByDispatch(acts, k, i + 1,
             IF ~c.ok THEN gens
             ELSE [id \in DOMAIN gens \cup {acts[i].ID} |->
                     IF id = acts[i].ID THEN c.g ELSE gens[id]])

\* C5: a generator exists from the dispatch of the first metricGenerator
\* action with its ID on, and at every tick its parameters are those the
\* actions dispatched so far give it, never those of a later action.
C5_OnlyDispatchedActions ==
  pc \in {"running", "done"} =>
    LET expected == generatorsByDispatch(actions, rs.CurrentAction, 1, EmptyMap)
    IN  \A id \in DOMAIN metricGenerators :
          /\ id \in DOMAIN expected
          /\ metricGenerators[id].spec = expected[id].spec

\* C6: after a metric action is dispatched, the producer stored under its ID
\* is the newly constructed one: the action's spec over the defaults, nothing
\* of an earlier producer's spec, lastEmitted zero, disabled as the spec says.
C6_MetricRecreates ==
  \A i \in 1..Len(log) :
    (log[i].dispatched # 0 /\ dispatchedBy(log[i]).Type = "metric" /\ log[i].dispatchOk) =>
      LET a == dispatchedBy(log[i])
          fresh == [k \in DOMAIN MetricProducerSpec(a.ID, a.To) |->
                      IF k \in DOMAIN a.Spec THEN a.Spec[k]
                      ELSE MetricProducerSpec(a.ID, a.To)[k]]
      IN  \A c \in Range(log[i].asked) :
            c.id = a.ID =>
              /\ c.pre.spec = fresh
              /\ c.pre.lastEmitted = 0
              /\ c.pre.spec.disabled = ("disabled" \in DOMAIN a.Spec /\ a.Spec.disabled)

\* a producer that had emitted was replaced by a metric action with its ID
C6_Witness ==
  \E i, j \in 1..Len(log) :
    /\ i < j
    /\ log[j].dispatched # 0
    /\ dispatchedBy(log[j]).Type = "metric"
    /\ log[j].dispatchOk
    /\ emissions(log[i], dispatchedBy(log[j]).ID) # {}
    /\ \E c \in Range(log[j].asked) :
         c.id = dispatchedBy(log[j]).ID /\ c.pre.lastEmitted = 0

\* a metric action with the ID was dispatched without error before tick i
hadProducer(i, id) ==
  \E k \in 1..(i - 1) :
    /\ log[k].dispatched # 0
    /\ log[k].dispatchOk
    /\ dispatchedBy(log[k]).Type = "metric"
    /\ dispatchedBy(log[k]).ID = id

\* the tick of record r dispatched an enableMetric or metric action for the ID
reenables(r, id) ==
  /\ r.dispatched # 0
  /\ dispatchedBy(r).ID = id
  /\ dispatchedBy(r).Type \in {"enableMetric", "metric"}

\* C7: from the tick that dispatches disableMetric for a producer, no
\* datapoint is emitted under its ID until an enableMetric or metric action
\* for it is dispatched; disableMetric and enableMetric fail exactly when the
\* ID has no producer.
C7_DisabledUntilEnabled ==
  \A i \in 1..Len(log) :
    (log[i].dispatched # 0
       /\ dispatchedBy(log[i]).Type \in {"disableMetric", "enableMetric"}) =>
      /\ log[i].dispatchOk <=> hadProducer(i, dispatchedBy(log[i]).ID)
      /\ (dispatchedBy(log[i]).Type = "disableMetric" /\ log[i].dispatchOk) =>
           \A j \in i..Len(log) :
             (\A k \in (i + 1)..j : ~reenables(log[k], dispatchedBy(log[i]).ID)) =>
               emissions(log[j], dispatchedBy(log[i]).ID) = {}

\* a disabled producer was asked to emit at a tick at which its frequency and
\* its to would have let it emit, and wrote no datapoint
C7_Witness ==
  \E i, j \in 1..Len(log) :
    /\ i <= j
    /\ log[i].dispatched # 0
    /\ dispatchedBy(log[i]).Type = "disableMetric"
    /\ log[i].dispatchOk
    /\ \A k \in (i + 1)..j : ~reenables(log[k], dispatchedBy(log[i]).ID)
    /\ \E c \in Range(log[j].asked) :
         /\ c.id = dispatchedBy(log[i]).ID
         /\ log[j].tick >= c.pre.lastEmitted + c.pre.spec.frequency
         /\ (c.pre.spec.to = 0 \/ log[j].tick <= c.pre.spec.to)
         /\ c.points = <<>>

\* C8: a tick in which dispatch, a producer's Emit or an emitter returns an
\* error is the last tick and Run fails; when dispatch returns the error, no
\* producer is asked to emit and no emitter is called in that tick.
C8_ErrorEndsRun ==
  \A i \in 1..Len(log) :
    LET r == log[i]
        failed == \/ ~r.dispatchOk
                  \/ \E c \in Range(r.asked) : ~c.ok
                  \/ ~r.metricsOk
                  \/ ~r.tracesOk
    IN  /\ failed => (i = Len(log) /\ pc = "failed")
        /\ ~r.dispatchOk =>
             /\ r.asked = <<>>
             /\ r.metricCalls = <<>>
             /\ ~r.tracesRun
             /\ r.tracesAsked = <<>>
             /\ r.traceCalls = <<>>

\* a run of at least two ticks ended in a tick whose dispatch failed
C8_Witness ==
  /\ pc = "failed"
  /\ Len(log) > 1
  /\ log[Len(log)].dispatched # 0
  /\ ~log[Len(log)].dispatchOk

\* the three conditions of ShouldEmit on the producer a record found
shouldEmit(c, at) ==
  /\ ~c.pre.spec.disabled
  /\ at >= c.pre.lastEmitted + c.pre.spec.frequency
  /\ (c.pre.spec.to = 0 \/ at <= c.pre.spec.to)

\* C9 as stated: a producer writes a datapoint at a tick exactly when the
\* three conditions hold; it then records the tick as lastEmitted, and
\* otherwise changes nothing and invokes no generator.
C9_EmitsIffShouldEmit ==
  \A i \in 1..Len(log) :
    \A c \in Range(log[i].asked) :
      /\ (c.points # <<>>) <=> shouldEmit(c, log[i].tick)
      /\ shouldEmit(c, log[i].tick) => c.post.lastEmitted = log[i].tick
      /\ ~shouldEmit(c, log[i].tick) =>
           /\ c.post = c.pre
           /\ c.gensPost = c.gensPre
           /\ c.rndPost = c.rndPre
           /\ c.calls = <<>>

\* C9, amended: a datapoint is written exactly when the three conditions hold
\* and Emit returns no error; whenever the conditions hold the tick is
\* recorded as lastEmitted, error or not; when they do not hold, producer,
\* generators and random source are unchanged and no generator is invoked.
C9_EmitsIffShouldEmitAndNoError ==
  \A i \in 1..Len(log) :
    \A c \in Range(log[i].asked) :
      /\ (c.points # <<>>) <=> (shouldEmit(c, log[i].tick) /\ c.ok)
      /\ ~shouldEmit(c, log[i].tick) => c.ok
      /\ shouldEmit(c, log[i].tick) => c.post.lastEmitted = log[i].tick
      /\ ~shouldEmit(c, log[i].tick) =>
           /\ c.post = c.pre
           /\ c.gensPost = c.gensPre
           /\ c.rndPost = c.rndPre
           /\ c.calls = <<>>

\* one producer has emitted at one tick and, asked again at a later tick
\* before its frequency had passed, has not
C9_Witness ==
  \E i, j \in 1..Len(log) :
    /\ i < j
    /\ \E c \in Range(log[i].asked), d \in Range(log[j].asked) :
         /\ c.id = d.id
         /\ c.points # <<>>
         /\ c.calls # <<>>
         /\ d.pre.lastEmitted = log[i].tick
         /\ ~d.pre.spec.disabled
         /\ log[j].tick < d.pre.lastEmitted + d.pre.spec.frequency
         /\ d.points = <<>>

\* C10: every generator kind is additive onto its input: with the same
\* generator state and random draws, Emit(state, x) = x + Emit(state, 0).
C10_Additive ==
  pc = "emit" =>
    \A i \in 1..Len(log) : log[i].out = log[i].incoming + log[i].zero.out

\* the Emit calls generator g received in the tick of record r, as pairs of
\* the index of the producer.Emit call and the index of the call within it
callsOn(r, g) ==
  {ak \in UNION {{<<a, k>> : k \in DOMAIN r.asked[a].calls} : a \in DOMAIN r.asked} :
     r.asked[ak[1]].calls[ak[2]][1] = g}

\* C11 as stated: at every tick executed without error, every generator of
\* the script receives exactly one Emit call.
C11_OneEmitPerTick ==
  pc \in {"running", "done", "failed"} =>
    \A i \in 1..Len(log) :
      log[i].ok => \A g \in DOMAIN metricGenerators : Cardinality(callsOn(log[i], g)) = 1

\* C11, amended: generators are called by the producers alone: a producer
\* that emits at a tick calls the generators of its list once each, in the
\* order of the list, and a producer that does not emit calls none; so a
\* generator receives, per tick, one call for each emitting producer that
\* lists it, and none when no such producer emits.
C11_OneEmitPerEmission ==
  \A i \in 1..Len(log) :
    \A c \in Range(log[i].asked) :
      /\ shouldEmit(c, log[i].tick) =>
           [k \in DOMAIN c.calls |-> c.calls[k][1]] = c.pre.spec.generators
      /\ ~shouldEmit(c, log[i].tick) => c.calls = <<>>

\* at one tick a generator was called twice, once by each of two producers,
\* and at an earlier tick of the same run it was not called at all
C11_Witness ==
  /\ pc \in {"running", "done"}
  /\ \E i, j \in 1..Len(log), g \in DOMAIN metricGenerators :
       /\ j < i
       /\ callsOn(log[j], g) = {}
       /\ Cardinality(callsOn(log[i], g)) = 2
       /\ Cardinality({ak[1] : ak \in callsOn(log[i], g)}) = 2

\* the value a ramp adds at tick t
rampValue(g, t) == Emit(g, t, 0, 0).out

\* the spec a reconfiguration asks for: the given keys over the old spec
rampNewSpec(r) ==
  [k \in DOMAIN r.g.spec |-> IF k \in DOMAIN r.is THEN r.is[k] ELSE r.g.spec[k]]

\* C12: a ramp reconfigured at T later than its anchor gets as start the
\* value the old rule interpolates at T and T as anchor, so that at T the new
\* rule emits what the old rule emits; reconfigured at T <= anchor it takes
\* the new spec as it is, with anchor T.
C12_RampContinuity ==
  \A i \in 1..Len(log) :
    (log[i].op = "reconfigure" /\ log[i].ok) =>
      LET r == log[i]
      IN  /\ r.post.at = r.at
          /\ r.at > r.g.at =>
               /\ r.post.spec = [rampNewSpec(r) EXCEPT !.start = rampValue(r.g, r.at)]
               /\ rampValue(r.post, r.at) = rampValue(r.g, r.at)
          /\ r.at <= r.g.at => r.post.spec = rampNewSpec(r)

\* C13: with prestart_zero a ramp emits 0 strictly before its anchor, with
\* postend_zero 0 strictly after anchor + duration; at the anchor it emits
\* start and at anchor + duration target, whatever the flags.
C13_RampZeroFlags ==
  \A i \in 1..Len(log) :
    log[i].op = "emit" =>
      LET g == log[i].g
          x == log[i].incoming
          end == g.at + g.spec.duration
      IN  \A t \in DOMAIN log[i].outs :
            /\ (g.spec.prestart_zero /\ t < g.at) => log[i].outs[t] = x
            /\ (g.spec.postend_zero /\ t > end) => log[i].outs[t] = x
            /\ t = g.at => log[i].outs[t] = x + g.spec.start
            /\ t = end => log[i].outs[t] = x + g.spec.target

\* C14: a ramp with both zero flags unset adds start up to its anchor,
\* target from anchor + duration on, and in between
\* start + (target - start) * (t - anchor) / duration; its output moves in
\* one direction from start to target and stays there.
C14_RampLinear ==
  \A i \in 1..Len(log) :
    (log[i].op = "emit" /\ ~log[i].g.spec.prestart_zero /\ ~log[i].g.spec.postend_zero) =>
      LET g == log[i].g
          x == log[i].incoming
          o == log[i].outs
          end == g.at + g.spec.duration
      IN  /\ \A t \in DOMAIN o :
               o[t] = x + (IF t <= g.at THEN g.spec.start
                           ELSE IF t >= end THEN g.spec.target
                           ELSE g.spec.start
                                + ((g.spec.target - g.spec.start) * (t - g.at))
                                  \div g.spec.duration)
          /\ \A t, u \in DOMAIN o :
               t <= u => IF g.spec.start <= g.spec.target
                         THEN o[t] <= o[u] /\ o[u] <= x + g.spec.target
                         ELSE o[t] >= o[u] /\ o[u] >= x + g.spec.target
          /\ \A t \in DOMAIN o : t >= end => o[t] = x + g.spec.target

\* a reconfigured ramp without zero flags was sampled before its anchor,
\* strictly inside its slope and after its end
C14_Witness ==
  \E i, j \in 1..Len(log) :
    /\ log[i].op = "reconfigure"
    /\ log[j].op = "emit"
    /\ ~log[j].g.spec.prestart_zero
    /\ ~log[j].g.spec.postend_zero
    /\ log[j].g.at > 0
    /\ log[j].g.at + log[j].g.spec.duration < MaxRampTick
    /\ \E t \in DOMAIN log[j].outs :
         /\ t > log[j].g.at
         /\ t < log[j].g.at + log[j].g.spec.duration
         /\ log[j].outs[t] # log[j].incoming + log[j].g.spec.start
         /\ log[j].outs[t] # log[j].incoming + log[j].g.spec.target

\* the datapoints of a tick, as pairs of producer name and value
valuesOf(r) == {<<d.name, d.value>> : d \in pointsOf(r)}

\* C15: with one ramp 0 -> 100 over 10 m sampled by one gauge every 10 s,
\* the ticks 0 s, 10 s, ..., 600 s each have one datapoint, of value
\* 10 * (t / 60) capped at 100, and the other ticks have none.
C15_RampScenario ==
  \A i \in 1..Len(log) :
    log[i].ok =>
      IF log[i].tick % (10 * Second) = 0
      THEN valuesOf(log[i]) =
             {<<"p1", Min2(100, (10 * (log[i].tick \div Second)) \div 60)>>}
      ELSE valuesOf(log[i]) = {}

\* Prepare returned an error: the run failed before its first tick
prepareFailed == pc = "failed" /\ log = <<>>

\* the largest at or to of the script
isMaxAtTo(m) ==
  /\ \A i \in 1..Len(actions) : actions[i].At <= m /\ actions[i].To <= m
  /\ \E i \in 1..Len(actions) : actions[i].At = m \/ actions[i].To = m

C17_DurationFromLastAt ==
  (pc # "new" /\ ~prepareFailed /\ cfg.Duration = 0) =>
    duration = actions[Len(actions)].At + Second

\* the position of an action in the script as it was written: the sample
\* scripts list their actions in the order of Menu
written(a) == CHOOSE k \in 1..Len(Menu) : Menu[k] = a

\* a comes before b, or ties with it, by at, then type, then id
keyBefore(a, b) ==
  \/ a.At < b.At
  \/ a.At = b.At /\ StrRank(a.Type) < StrRank(b.Type)
  \/ a.At = b.At /\ a.Type = b.Type /\ StrRank(a.ID) <= StrRank(b.ID)

sameKey(a, b) == a.At = b.At /\ a.Type = b.Type /\ a.ID = b.ID

\* the prepared list is in the order of the three keys
ordered ==
  \A i, j \in 1..Len(actions) : i < j => keyBefore(actions[i], actions[j])

\* C18: after Prepare the action list is ordered by at, then type, then id,
\* and actions equal on all three keys keep their original relative order.
C18_SortedStable ==
  (pc # "new" /\ Len(actions) > 0) =>
    /\ ordered
    /\ \A i, j \in 1..Len(actions) :
         (i < j /\ sameKey(actions[i], actions[j])) =>
           written(actions[i]) < written(actions[j])

\* C19: a run without an error executes exactly floor(duration in seconds) + 1
\* ticks, the ticks 0 s, 1 s, ... in increasing order up to the duration, each
\* with wallclock = start + tick, and after the last one nothing more happens.
C19_Ticks ==
  /\ \A i \in 1..Len(log) :
       /\ log[i].tick = (i - 1) * Second
       /\ log[i].tick <= duration
       /\ log[i].wallclock = cfg.WallclockStart + log[i].tick
  /\ (pc = "running" /\ Len(log) > 0) =>
       log[Len(log)].tick + Second <= duration
  /\ pc = "done" =>
       /\ \A i \in 1..Len(log) : log[i].ok
       /\ Len(log) = (duration \div Second) + 1
       /\ duration - log[Len(log)].tick < Second
       /\ ~ENABLED Next

\* a run of several ticks over a duration that is not a whole number of
\* seconds has ended
C19_Witness ==
  /\ pc = "done"
  /\ Len(log) >= 2
  /\ duration % Second # 0
  /\ log[Len(log)].wallclock > log[1].wallclock

\* the registered emitters, in the order of registration
allEmitters == [k \in 1..emitters |-> k]

\* no emitter is called at a tick earlier than from
notBeforeFrom ==
  \A i \in 1..Len(log) :
    log[i].tick < from => log[i].metricCalls = <<>> /\ log[i].traceCalls = <<>>

\* C20 as stated: no emitter is called at a tick earlier than from, and at
\* every tick >= from every registered emitter is called once with the metric
\* batch and once with the trace batch.
C20_EveryEmitterEveryTick ==
  /\ notBeforeFrom
  /\ \A i \in 1..Len(log) :
       log[i].tick >= from =>
         log[i].metricCalls = allEmitters /\ log[i].traceCalls = allEmitters

\* C20: no emitter is called at a tick earlier than from; at every tick >= from
\* that ends without an error every registered emitter is called once with the
\* metric batch and once with the trace batch, and at a tick that ends with an
\* error the emitters called are the first ones of the list, the trace batch
\* going out only after every emitter took the metric batch.
C20_EveryEmitterEveryGoodTick ==
  /\ notBeforeFrom
  /\ \A i \in 1..Len(log) :
       /\ (log[i].tick >= from /\ log[i].ok) =>
            log[i].metricCalls = allEmitters /\ log[i].traceCalls = allEmitters
       /\ \E k \in 0..emitters : log[i].metricCalls = SubSeq(allEmitters, 1, k)
       /\ \E k \in 0..emitters : log[i].traceCalls = SubSeq(allEmitters, 1, k)
       /\ log[i].traceCalls # <<>> => log[i].metricCalls = allEmitters

\* a run with two emitters that started emitting at a from offset later than
\* its first tick, with a datapoint in the batch
C20_Witness ==
  /\ from > 0
  /\ emitters = 2
  /\ \E i, j \in 1..Len(log) :
       /\ log[i].tick < from /\ log[i].ok /\ log[i].md # <<>>
       /\ log[j].tick >= from /\ log[j].ok /\ log[j].md # <<>>
       /\ log[j].metricCalls = <<1, 2>> /\ log[j].traceCalls = <<1, 2>>

\* the rate a producer with the settings of t interpolates at tick n
rateAt(t, n) ==
  IF t.spec.To <= t.spec.At THEN t.spec.Rate
  ELSE IF n <= t.spec.At THEN t.start
  ELSE IF n >= t.spec.To THEN t.spec.Rate
  ELSE t.start + ((t.spec.Rate - t.start) * (n - t.spec.At))
                   \div (t.spec.To - t.spec.At)

\* the step is a tick that dispatched the k-th action
dispatches(k) ==
  /\ Len(log') = Len(log) + 1
  /\ log'[Len(log')].dispatched = k

\* C21: a traceRate action dispatched at tick n sets the producer's window to
\* the action's [at, to], its target rate to rate and its start rate to the rate
\* it was interpolating at tick n under its previous settings, or to start when
\* the spec has one; a missing producer or a missing rate is a dispatch error.
C21_TraceRate ==
  [][\A k \in 1..Len(actions) :
       (dispatches(k) /\ actions[k].Type = "traceRate") =>
         LET a == actions[k]
             n == log'[Len(log')].tick
         IN  IF a.ID \in DOMAIN traceProducers /\ "rate" \in DOMAIN a.Spec
             THEN /\ log'[Len(log')].dispatchOk
                  /\ traceProducers'[a.ID].spec.At = a.At
                  /\ traceProducers'[a.ID].spec.To = a.To
                  /\ traceProducers'[a.ID].spec.Rate = a.Spec.rate
                  /\ traceProducers'[a.ID].start =
                       IF "start" \in DOMAIN a.Spec THEN a.Spec.start
                       ELSE rateAt(traceProducers[a.ID], n)
                  /\ \A id \in DOMAIN traceProducers \ {a.ID} :
                       traceProducers'[id] = traceProducers[id]
             ELSE /\ ~log'[Len(log')].dispatchOk
                  /\ pc' = "failed"
                  /\ traceProducers' = traceProducers]_vars

\* a traceRate action without a start was dispatched in the middle of a rising
\* window: the start rate it captured is neither the old start nor the old target
C21_Witness ==
  /\ Len(log) > 0
  /\ log[Len(log)].dispatched # 0
  /\ log[Len(log)].dispatchOk
  /\ actions[log[Len(log)].dispatched].Type = "traceRate"
  /\ "start" \notin DOMAIN actions[log[Len(log)].dispatched].Spec
  /\ log[Len(log)].tick > actions[log[Len(log)].dispatched].At
  /\ traceProducers["t1"].start = 2 * RateScale
  /\ traceProducers["t1"].spec.Rate = 1 * RateScale

\* the number of spans of a tick's trace batch that copy the exemplar span ref
spansOf(r, ref) == Cardinality({k \in DOMAIN r.td : r.td[k].ref = ref})

\* the last tick logged
lastTick == log[Len(log)]

\* how often the producer t must replay its exemplar at tick n
replays(t, n) ==
  IF t.spec.Disabled \/ n < t.spec.At \/ n > t.spec.To THEN 0
  ELSE IF rateAt(t, n) <= 0 THEN 0
  ELSE CHOOSE c \in 0..rateAt(t, n) :
         c * RateScale <= rateAt(t, n) /\ rateAt(t, n) < (c + 1) * RateScale

\* C22: a trace producer emits no span at a tick when it is disabled or the
\* tick is outside [at, to]; otherwise it replays its exemplar tree exactly
\* floor(r) times, r being the rate interpolated at that tick, and not at all
\* when r <= 0.
C22_SpansPerTick ==
  (Len(log) > 0 /\ lastTick.tracesRun /\ lastTick.tracesOk) =>
    \A id \in DOMAIN traceProducers :
      \A s \in {traceProducers[id].spec.Exemplar}
               \cup Range(traceProducers[id].spec.Exemplar.Children) :
        spansOf(lastTick, s.Ref) = replays(traceProducers[id], lastTick.tick)

\* a producer with a fractional rate has replayed its exemplar, next to a
\* disabled producer inside its window
C22_Witness ==
  /\ Len(log) > 0 /\ lastTick.tracesRun /\ lastTick.tracesOk
  /\ DOMAIN traceProducers = {"t0", "t1"}
  /\ rateAt(traceProducers["t1"], lastTick.tick) % RateScale # 0
  /\ spansOf(lastTick, "root") >= 2
  /\ lastTick.tick <= traceProducers["t0"].spec.To

\* the span IDs of a tick's trace batch, in the order of allocation
spanIDs(r) == [k \in DOMAIN r.td |-> r.td[k].span]

\* C23: the span IDs come from one generator with a fixed seed, so two runs of
\* the same script allocate the same sequence of span IDs.
C23_SameSpanIDs ==
  (twin.on /\ Len(log) > 0) =>
    \A i \in 1..Len(log) : spanIDs(log[i]) = spanIDs(twin.log[i])

\* all the timelines of a document, of its metric and of its trace variants
timelinesOf(doc) ==
  UNION {{doc.metrics[m].Variants[v].Timeline : v \in DOMAIN doc.metrics[m].Variants} :
           m \in DOMAIN doc.metrics}
  \cup UNION {{doc.traces[t].Variants[v].Timeline : v \in DOMAIN doc.traces[t].Variants} :
                t \in DOMAIN doc.traces}

\* the timeline with "segment" written out where the type is absent
typed(timeline) ==
  [i \in DOMAIN timeline |->
     IF timeline[i].Type = "" THEN [timeline[i] EXCEPT !.Type = "segment"]
     ELSE timeline[i]]

\* the document with "segment" written out wherever a type is absent
explicit(doc) ==
  [metrics |-> [m \in DOMAIN doc.metrics |->
                  [doc.metrics[m] EXCEPT !.Variants =
                     [v \in DOMAIN @ |-> [@[v] EXCEPT !.Timeline = typed(@)]]]],
   traces |-> [t \in DOMAIN doc.traces |->
                 [doc.traces[t] EXCEPT !.Variants =
                    [v \in DOMAIN @ |-> [@[v] EXCEPT !.Timeline = typed(@)]]]]]

\* what the merge step left: its verdict, the script and the trace producers
merged == [ok |-> log[3].ok, acts |-> actions, tps |-> traceProducers]

\* C24: after parsing, every segment whose type is absent has type "segment",
\* in metric and in trace variants, and is compiled as a segment explicitly
\* typed "segment" would be.
C24_DefaultType ==
  /\ Len(log) >= 2 =>
       \A tl \in timelinesOf(log[2].doc) : \A i \in DOMAIN tl : tl[i].Type # ""
  /\ Len(log) = 3 => merged = MergeIntoScript(ParseTimeline(explicit(log[1].doc)))

\* the end_ts of the entries of type "segment" of a timeline
segmentEnds(timeline) ==
  {timeline[i].EndTs : i \in {j \in DOMAIN timeline : timeline[j].Type = "segment"}}

\* x is the largest element of the non-empty set S
isMax(x, S) == x \in S /\ \A y \in S : y <= x

\* the variants of the parsed document's metric
metricVariants == Range(log[2].doc.metrics[1].Variants)

metricActions == {a \in Range(actions) : a.Type = "metric"}

\* a metric document has been compiled, with or without an error
compiledMetric == Len(log) = 3 /\ log[1].doc.metrics # <<>>

\* every compiled metric action, and the spec of its producer, ends at the
\* largest end_ts of the segments of its variant
toIsLastSegmentEnd ==
  /\ \A a \in metricActions :
       \E v \in metricVariants :
         /\ a.ID = makeMetricID(log[2].doc.metrics[1], v)
         /\ isMax(a.To, segmentEnds(v.Timeline))
         /\ a.Spec.to = a.To
  /\ \A v \in metricVariants :
       log[3].ok =>
         Cardinality({k \in DOMAIN actions :
                        /\ actions[k].Type = "metric"
                        /\ actions[k].ID = makeMetricID(log[2].doc.metrics[1], v)}) = 1
  /\ (\E v \in metricVariants : v.Timeline = <<>>) => ~log[3].ok

\* C25 as stated: the metric action's to, the producer's to and the run
\* duration computed from the compiled script all equal the largest end_ts of
\* the variant's segments; a variant without entries is an error.
C25_ToIsLastSegmentEnd ==
  compiledMetric =>
    /\ toIsLastSegmentEnd
    /\ (log[3].ok /\ actions # <<>>) =>
         isMax(calculateDuration(0, actions).d, {a.To : a \in metricActions})

\* C25: the metric action's to and the producer's to equal the largest end_ts
\* of the variant's segments, and a variant without entries is an error; the
\* run duration computed from the compiled script is at least every such to,
\* and larger only when an action of the script starts later.
C25_ToIsLastSegmentEndOnly ==
  compiledMetric =>
    /\ toIsLastSegmentEnd
    /\ (log[3].ok /\ actions # <<>>) =>
         LET d == calculateDuration(0, actions).d
         IN  /\ \A a \in metricActions : a.To <= d
             /\ ~isMax(d, {a.To : a \in metricActions}) =>
                  \E k \in DOMAIN actions : actions[k].At = d

\* two variants were compiled; one has a disable entry ending after its last
\* segment, and the two producers end at different times
C25_Witness ==
  /\ compiledMetric /\ log[3].ok
  /\ Cardinality({a.To : a \in metricActions}) = 2
  /\ \E v \in metricVariants : \E i \in DOMAIN v.Timeline :
       /\ v.Timeline[i].Type = "disable"
       /\ \A e \in segmentEnds(v.Timeline) : e < v.Timeline[i].EndTs

\* type and at of the enable and disable actions compiled for the producer id,
\* in the order of the script
bracketsOf(id) ==
  LET sel == SelectSeq(actions,
                       LAMBDA a : a.ID = id /\ a.Type \in {"disableMetric", "enableMetric"})
  IN  [k \in DOMAIN sel |-> <<sel[k].Type, sel[k].At>>]

RECURSIVE bracketsFor(_, _)
\* the enable and disable actions C26 asks for, for the first n entries of tl
bracketsFor(tl, n) ==
  IF n = 0 THEN <<>>
  ELSE bracketsFor(tl, n - 1) \o
       (IF tl[n].Type = "disable" THEN <<<<"disableMetric", tl[n].StartTs>>>>
        ELSE IF n > 1 /\ tl[n - 1].Type = "disable"
        THEN <<<<"enableMetric",
                 IF tl[n].StartTs # 0 THEN tl[n].StartTs ELSE tl[n - 1].EndTs>>>>
        ELSE <<>>)

\* C26: every "disable" entry compiles to a disableMetric action at its
\* start_ts, and the first segment after one or more "disable" entries to
\* exactly one enableMetric action at that segment's start: its start_ts, or
\* when that is omitted the end_ts of the entry before it.
C26_Brackets ==
  (compiledMetric /\ log[3].ok) =>
    \A v \in metricVariants :
      bracketsOf(makeMetricID(log[2].doc.metrics[1], v))
        = bracketsFor(v.Timeline, Len(v.Timeline))

\* the random walk of a record of the log, after the call the record is of
walkAfter(rec) == rec.post

\* the walk's current value lies within [target - variation, target + variation]
inBand(m) ==
  /\ m.spec.target - m.spec.variation <= m.current
  /\ m.current <= m.spec.target + m.spec.variation

\* the records of the log that are calls on a random walk whose variation is
\* not negative after the call
walkRecords ==
  {i \in DOMAIN log : log[i].g.kind = "randomWalk" /\ log[i].post.spec.variation >= 0}

\* with variation 0 every output equals incoming + target
flatWalk ==
  \A i \in walkRecords :
    (log[i].op = "emit" /\ log[i].g.spec.variation = 0) =>
      log[i].out = log[i].incoming + log[i].g.spec.target

\* C27, as the claim states it: a random walk with variation >= 0 has its
\* current value within [target - variation, target + variation] after
\* construction, after every Reconfigure and after every Emit, and with
\* variation 0 every output equals incoming + target.
C27_WalkInBand ==
  /\ (log = <<>> /\ metricGenerators["g1"].kind = "randomWalk"
       /\ metricGenerators["g1"].spec.variation >= 0) => inBand(metricGenerators["g1"])
  /\ \A i \in walkRecords : inBand(walkAfter(log[i]))
  /\ flatWalk

\* what the code does keep: a random walk with variation >= 0 has its current
\* value within [target - variation, target + variation] after construction,
\* after every Reconfigure that returns no error (which resets it to target)
\* and after every Emit; with variation 0 every output equals incoming +
\* target. A Reconfigure that returns an error has written the new spec and
\* left current, min and max as they were.
C27_WalkInBandUnlessFailed ==
  /\ (log = <<>> /\ metricGenerators["g1"].kind = "randomWalk"
       /\ metricGenerators["g1"].spec.variation >= 0) => inBand(metricGenerators["g1"])
  /\ \A i \in walkRecords :
       /\ (log[i].op = "emit" \/ log[i].ok) => inBand(walkAfter(log[i]))
       /\ (log[i].op = "reconfigure" /\ log[i].ok) =>
            walkAfter(log[i]).current = walkAfter(log[i]).spec.target
       /\ (log[i].op = "reconfigure" /\ ~log[i].ok) =>
            /\ walkAfter(log[i]).current = log[i].g.current
            /\ walkAfter(log[i]).min = log[i].g.min
            /\ walkAfter(log[i]).max = log[i].g.max
  /\ flatWalk

\* a walk is moved to a new target by a Reconfigure and the next Emit stops
\* it at the edge of the new band
C27_Witness ==
  /\ Len(log) = 3
  /\ log[1].op = "emit" /\ log[1].g.kind = "randomWalk"
  /\ log[2].op = "reconfigure" /\ log[2].ok /\ log[2].is = [target |-> 20]
  /\ log[3].op = "emit" /\ log[3].g.spec.variation > 0
  /\ log[3].post.current = 20 + log[3].post.spec.variation
  /\ log[3].out = log[3].incoming + log[3].post.current

\* the emissions of normal-noise generators in the log
normalEmits == {i \in DOMAIN log : log[i].op = "emit" /\ log[i].g.kind = "normalNoise"}

\* the noise term getNormalSample adds to target in the call of a record
noiseTerm(rec) == getNormalNoise(rec.rnd, rec.g.spec, rec.g.stdDev).noise

\* C28: every sample a normal-noise generator adds to the incoming value lies
\* in [target - variation, target + variation]; with direction "positive" the
\* noise term added to target is >= 0 (and so is sample - target), with
\* direction "negative" it is <= 0.
C28_NormalSample ==
  \A i \in normalEmits :
    LET spec == log[i].g.spec
        sample == log[i].out - log[i].incoming
    IN  /\ spec.target - spec.variation <= sample
        /\ sample <= spec.target + spec.variation
        /\ spec.direction = "positive" => (noiseTerm(log[i]) >= 0 /\ sample >= spec.target)
        /\ spec.direction = "negative" => (noiseTerm(log[i]) <= 0 /\ sample <= spec.target)

\* a generator made "negative" by a Reconfigure rejects a positive first draw
\* and its sample is cut at target - variation
C28_Witness ==
  /\ Len(log) = 2
  /\ log[1].op = "reconfigure" /\ log[1].ok /\ log[1].is = [direction |-> "negative"]
  /\ log[1].g.kind = "normalNoise" /\ log[1].g.spec.direction = "positive"
  /\ log[2].op = "emit" /\ log[2].incoming = 5
  /\ NormFloat64(log[2].rnd) > 0
  /\ log[2].g.spec.target + noiseTerm(log[2]) < log[2].g.spec.target - log[2].g.spec.variation
  /\ log[2].out = 5 + log[2].g.spec.target - log[2].g.spec.variation

\* the emissions of Poisson-noise generators in the log
poissonEmits == {i \in DOMAIN log : log[i].op = "emit" /\ log[i].g.kind = "poissonNoise"}

\* C29: the output of a Poisson-noise generator is non-negative for direction
\* "positive" or "both" and non-positive for direction "negative", for every
\* accepted target and variation; samplePoisson returns 0, and draws nothing,
\* whenever its rate is 0 or less. (Every value of the model is an integer.)
C29_PoissonSign ==
  /\ \A i \in poissonEmits :
       /\ log[i].g.spec.direction \in {"positive", "both"} => log[i].out >= 0
       /\ log[i].g.spec.direction = "negative" => log[i].out <= 0
  /\ \A lambda \in -2..0 : samplePoisson(lambda, rs.RND) = [sample |-> 0, rnd |-> rs.RND]

\* the calls on spiky-noise generators in the log
spikyRecords == {i \in DOMAIN log : log[i].g.kind = "spikyNoise"}

\* the draw Emit compares with pStart when the generator is OFF
startDraw(rec) == RndOut(rec.rnd)

\* the generator is ON when Emit computes the noise of the call
spikingIn(rec) == rec.g.spiking \/ startDraw(rec) < rec.g.spec.pStart

\* the draw Emit compares with pEnd, taken after the Poisson sample
endDraw(rec) ==
  RndOut(samplePoisson(rec.g.spec.peakTarget,
                       IF rec.g.spiking THEN rec.rnd ELSE RndNext(rec.rnd)).rnd)

\* the value an ON generator adds lies in [0, peakTarget + variation],
\* negated for direction "negative"
spikeInRange(rec) ==
  LET v == rec.out - rec.incoming
      hi == rec.g.spec.peakTarget + rec.g.spec.variation
  IN  IF rec.g.spec.direction = "negative" THEN 0 <= -v /\ -v <= hi
      ELSE 0 <= v /\ v <= hi

\* C30: the on/off flag of a spiky-noise generator changes only inside Emit
\* (OFF to ON only when the draw is below pStart, ON to OFF only when the draw
\* is below pEnd) and never in Reconfigure; while ON the generator adds a
\* value in [0, peakTarget + variation] (negated for "negative"), while OFF it
\* adds 0, and a generator that is OFF with pStart = 0 returns the incoming
\* value unchanged and stays OFF.
C30_Spiky ==
  \A i \in spikyRecords :
    /\ log[i].op = "reconfigure" => log[i].post.spiking = log[i].g.spiking
    /\ log[i].op = "emit" =>
         /\ (~log[i].g.spiking /\ log[i].post.spiking) =>
              startDraw(log[i]) < log[i].g.spec.pStart
         /\ (log[i].g.spiking /\ ~log[i].post.spiking) =>
              endDraw(log[i]) < log[i].g.spec.pEnd
         /\ (~log[i].g.spiking /\ startDraw(log[i]) >= log[i].g.spec.pStart) =>
              ~log[i].post.spiking
         /\ (spikingIn(log[i]) /\ endDraw(log[i]) >= log[i].g.spec.pEnd) =>
              log[i].post.spiking
         /\ spikingIn(log[i]) => spikeInRange(log[i])
         /\ ~spikingIn(log[i]) => log[i].out = log[i].incoming
         /\ (~log[i].g.spiking /\ log[i].g.spec.pStart = 0) =>
              (log[i].out = log[i].incoming /\ ~log[i].post.spiking)

\* the spec of a record has a numeric range the claim calls invalid, for a
\* generator of the given kind whose fields are v after decoding
badRange(kind, v) ==
  \/ kind \in {"randomWalk", "normalNoise", "poissonNoise", "spikyNoise"} /\ v.variation < 0
  \/ kind = "spikyNoise" /\ (v.pStart < 0 \/ v.pStart > RndMod \/ v.pEnd < 0 \/ v.pEnd > RndMod)
  \/ kind = "randomWalk" /\ v.stepSize <= 0
  \/ kind = "ramp" /\ v.duration <= 0

\* the struct a constructor decodes into, by the type of the spec
defaultsOf(type) ==
  CASE type = "constant" -> MetricConstantSpec
    [] type = "ramp" -> MetricRampSpec
    [] type = "randomWalk" -> MetricRandomWalkSpec
    [] type = "normalNoise" -> MetricNormalNoiseSpec
    [] type = "poissonNoise" -> MetricPoissonNoiseSpec
    [] OTHER -> MetricSpikyNoiseSpec

\* C31: constructing or reconfiguring a generator with an invalid numeric
\* range returns an error: negative variation (every generator that has a
\* variation), pStart or pEnd outside [0, 1] (spiky noise), stepSize <= 0
\* (random walk), duration <= 0 (ramp).
C31_InvalidRangeRejected ==
  \A i \in DOMAIN log :
    /\ log[i].op = "create" =>
         (badRange(log[i].is.type, Decode(defaultsOf(log[i].is.type), log[i].is).v)
            => ~log[i].ok)
    /\ log[i].op = "reconfigure" =>
         (badRange(log[i].g.kind, Decode(log[i].g.spec, log[i].is).v) => ~log[i].ok)

\* the Reconfigure calls of the log that returned an error
failedReconfigures == {i \in DOMAIN log : log[i].op = "reconfigure" /\ ~log[i].ok}

\* C38: for every generator kind, a Reconfigure call that returns an error
\* leaves the generator's parameters and runtime state exactly as they were
\* before the call.
C38_FailedReconfigureKeeps ==
  \A i \in failedReconfigures : log[i].post = log[i].g

\* the spec of the call has a key MetricProducerSpec does not have
unknownKeys(mes) == ~(DOMAIN mes.Spec \subseteq DOMAIN MetricProducerSpec("", 0))

\* the generator list the spec gives
listed(mes) == IF "generators" \in DOMAIN mes.Spec THEN mes.Spec.generators ELSE <<>>

\* the error the claim names for a call, "" when it names none
gaugeError(rec) ==
  IF rec.name = "" THEN "ErrInvalidMetricName"
  ELSE IF unknownKeys(rec.mes) THEN "DecodeError"
  ELSE IF Len(listed(rec.mes)) = 0 THEN "ErrNoGenerators"
  ELSE IF \E i \in DOMAIN listed(rec.mes) : listed(rec.mes)[i] \notin DOMAIN metricGenerators
  THEN "ErrUnknownGenerator"
  ELSE ""

\* the producer has the generator list of the spec and the frequency of the
\* spec, or 10s when the spec has none
madeAsListed(rec) ==
  /\ rec.res.ok
  /\ rec.res.p.spec.generators = listed(rec.mes)
  /\ rec.res.p.spec.frequency =
       (IF "frequency" \in DOMAIN rec.mes.Spec THEN rec.mes.Spec.frequency
        ELSE 10 * Second)
  /\ rec.res.p.spec.to = rec.mes.To

\* C32, as the claim states it: creating a gauge fails with
\* ErrInvalidMetricName for an empty name, with a decode error for unknown
\* keys, with ErrNoGenerators for an empty generator list and with
\* ErrUnknownGenerator for a generator that is not registered; otherwise it
\* succeeds with the given name and generator list and with frequency 10s
\* when the spec sets none.
C32_GaugeGivenName ==
  \A i \in DOMAIN log :
    IF gaugeError(log[i]) # "" THEN ~log[i].res.ok /\ log[i].res.err = gaugeError(log[i])
    ELSE madeAsListed(log[i]) /\ log[i].res.p.spec.name = log[i].name

\* C32, amended: the same errors, checked in this order; otherwise the gauge
\* is made with the generator list of the spec, frequency 10s when the spec
\* sets none, and the name of the spec when the spec has one, the given name
\* when it has none.
C32_GaugeNameOrSpecName ==
  \A i \in DOMAIN log :
    IF gaugeError(log[i]) # "" THEN ~log[i].res.ok /\ log[i].res.err = gaugeError(log[i])
    ELSE /\ madeAsListed(log[i])
         /\ log[i].res.p.spec.name =
              (IF "name" \in DOMAIN log[i].mes.Spec THEN log[i].mes.Spec.name
               ELSE log[i].name)

\* a gauge is made of a spec that lists two registered generators and sets
\* neither name nor frequency
C32_Witness ==
  /\ Len(log) = 1
  /\ log[1].res.ok
  /\ log[1].mes.Spec = [generators |-> <<"g1", "g2">>]
  /\ log[1].res.p.spec.name = "m1"
  /\ log[1].res.p.spec.frequency = DefaultFrequency
  /\ "m1" \in DOMAIN metricProducers

RECURSIVE preorder(_, _, _)
RECURSIVE preorderOf(_, _, _, _)
\* the nodes of a span tree in the order a replay visits them, each with the
\* position of its parent in that order (0 for the root); used is the number
\* of positions taken before the tree
preorder(s, parentPos, used) ==
  <<[ref |-> s.Ref, parent |-> parentPos]>> \o preorderOf(s.Children, 1, used + 1, used + 1)

preorderOf(children, i, myPos, used) ==
  IF i > Len(children) THEN <<>>
  ELSE LET sub == preorder(children[i], myPos, used)
       IN  sub \o preorderOf(children, i + 1, myPos, used + Len(sub))

\* the spans at positions base + 1 .. base + Len(nodes) of a batch are one
\* replay of the tree: one span per node, one trace ID, the root without a
\* parent and every other span under the span ID of its parent node
isReplay(td, base, nodes) ==
  \A k \in DOMAIN nodes :
    /\ td[base + k].ref = nodes[k].ref
    /\ td[base + k].trace = td[base + 1].trace
    /\ td[base + k].parent =
         (IF nodes[k].parent = 0 THEN EmptySpanID ELSE td[base + nodes[k].parent].span)

\* C33: each replay of an exemplar span tree emits exactly one span per tree
\* node, all with the replay's one trace ID; the root span has an empty parent
\* span ID and every other span's parent span ID is the span ID given to its
\* parent node in the same replay. (In these runs only t1 emits.)
C33_ReplayLinkage ==
  \A i \in DOMAIN log :
    (log[i].tracesRun /\ log[i].tracesOk /\ "t1" \in DOMAIN traceProducers) =>
      LET nodes == preorder(traceProducers["t1"].spec.Exemplar, 0, 0)
          td == log[i].td
      IN  /\ Len(td) % Len(nodes) = 0
          /\ \A b \in 0..((Len(td) \div Len(nodes)) - 1) : isReplay(td, b * Len(nodes), nodes)

\* the tree with a grandchild was replayed twice in one tick, and the
\* grandchild's parent is not the root
C33_Witness ==
  /\ Len(log) > 0 /\ lastTick.tracesRun /\ lastTick.tracesOk
  /\ traceProducers["t1"].spec.Exemplar = DeepExemplar
  /\ Len(lastTick.td) = 8
  /\ lastTick.td[3].ref = "c" /\ lastTick.td[3].parent = lastTick.td[2].span
  /\ lastTick.td[2].span # lastTick.td[1].span
  /\ lastTick.td[7].parent = lastTick.td[6].span

RECURSIVE overridden(_, _)
\* the span tree a variant with the overrides ov is to replay: the shape of
\* the exemplar; a span whose ref has an override takes the duration, the
\* error flag and the merged attributes the override sets and keeps the rest
overridden(span, ov) ==
  LET o == IF span.Ref \in DOMAIN ov THEN ov[span.Ref] ELSE NoSpec
  IN  [Ref |-> span.Ref, ok |-> span.ok,
       Duration |-> IF "duration" \in DOMAIN o THEN o.duration ELSE span.Duration,
       Error |-> IF "error" \in DOMAIN o THEN o.error ELSE span.Error,
       Attributes |->
         IF "attributes" \in DOMAIN o
         THEN [k \in {j \in DOMAIN span.Attributes \cup DOMAIN o.attributes :
                       IF j \in DOMAIN o.attributes THEN o.attributes[j] # Nil
                       ELSE TRUE} |->
                 IF k \in DOMAIN o.attributes THEN o.attributes[k]
                 ELSE span.Attributes[k]]
         ELSE span.Attributes,
       Children |-> [i \in DOMAIN span.Children |-> overridden(span.Children[i], ov)]]

\* the exemplar the producer of a variant replays
compiledExemplar(trace, variant) ==
  traceProducers[makeTraceID(trace, variant)].spec.Exemplar

\* C34: compiling a trace variant yields a copy of the exemplar span tree of
\* the same shape in which each span whose ref has an override takes the
\* override's duration, error flag and merged attributes (what the override
\* leaves unset is kept) and every other span is unchanged; the exemplar of
\* the document is not modified, so the overrides of one variant do not show
\* in the spans of another.
C34_VariantCopies ==
  (Len(log) = 3 /\ log[2].doc.traces # <<>>) =>
    /\ log[3].traces = log[2].doc.traces
    /\ log[3].ok =>
         \A v \in DOMAIN log[2].doc.traces[1].Variants :
           compiledExemplar(log[2].doc.traces[1], log[2].doc.traces[1].Variants[v])
             = overridden(log[2].doc.traces[1].Exemplar,
                          log[2].doc.traces[1].Variants[v].Overrides)

\* two variants were compiled from one exemplar: the second has a shorter
\* span a without the attribute k1 and an error on c, the first an error on
\* the root; neither shows the other's changes
C34_Witness ==
  /\ pc = "merged" /\ log[2].doc.traces # <<>>
  /\ Len(log[2].doc.traces[1].Variants) = 2
  /\ LET tr == log[2].doc.traces[1]
         ea == compiledExemplar(tr, tr.Variants[2])
         eb == compiledExemplar(tr, tr.Variants[1])
     IN  /\ ea.Children[1].Duration = 3 /\ DOMAIN ea.Children[1].Attributes = {"k3"}
         /\ ea.Children[1].Children[1].Error /\ ~ea.Error
         /\ ea.Attributes = tr.Exemplar.Attributes
         /\ eb.Error /\ eb.Attributes.k2 = "w2" /\ eb.Children[1] = tr.Exemplar.Children[1]
         /\ eb.Children[2].Duration = 5

\* the actions of the script dispatched by the ticks logged so far
dispatchedActions == {log[i].dispatched : i \in DOMAIN log} \ {0}

\* C35: for a script on which Prepare succeeded, every action of the script
\* has been dispatched at some tick when the run ends (here: when the loop of
\* run has made its last tick without an error).
C35_AllDispatched ==
  pc = "done" => dispatchedActions = 1..Len(actions)


\* the compiled ramp actions: one per segment, with the segment's beginning,
\* start value, target and length
rampActions ==
  {a \in Range(actions) : a.Type = "metricGenerator" /\ a.Spec.type = "ramp"}

\* what the ramp generators added in the producer.Emit call c
rampSum(c) ==
  LET ks == {k \in DOMAIN c.calls :
               \E a \in rampActions : a.ID = c.calls[k][1]}
      RECURSIVE sum(_)
      sum(S) == IF S = {} THEN 0
                ELSE LET k == CHOOSE x \in S : TRUE
                     IN  (c.calls[k][3] - c.calls[k][2]) + sum(S \ {k})
  IN  sum(ks)

\* the linear interpolation of the segment of ramp action a at tick t
segmentValue(a, t) ==
  a.Spec.start + ((a.Spec.target - a.Spec.start) * (t - a.At)) \div a.Spec.duration

\* C36: in a compiled metric script, at every emitting tick strictly inside a
\* segment, the ramp generators of the variant together add the linear
\* interpolation between that segment's start value and its target.
C36_SegmentInterpolation ==
  pc \in {"running", "done"} =>
    \A i \in DOMAIN log : \A c \in Range(log[i].asked) : \A a \in rampActions :
      (c.calls # <<>> /\ a.At < log[i].tick /\ log[i].tick < a.At + a.Spec.duration)
        => rampSum(c) = segmentValue(a, log[i].tick)

\* C37: a run of a compiled script has no dispatch error: no tick's dispatch
\* fails, a compiled `metric` action finds every generator it lists, and a
\* disableMetric or enableMetric action finds its producer.
C37_NoDispatchError ==
  \A i \in DOMAIN log : log[i].dispatchOk

\* the documents the script being run can have been compiled from
sourceDocs ==
  {doc \in RunDocs :
     \E r \in {MergeIntoScript(ParseTimeline(doc))} :
       /\ r.ok
       /\ Len(r.acts) = Len(actions)
       /\ Range(namedActions(r.acts)) = Range(actions)
       /\ DOMAIN namedProducers(r.tps) = DOMAIN traceProducers}

\* the entries of a timeline the trace compiler makes a traceRate action of
rateSegments(tl) == SelectSeq(tl, LAMBDA dp : dp.Type = "segment")

\* the traceRate actions of producer id, in the order of the script
rateActions(id) == SelectSeq(actions, LAMBDA a : a.Type = "traceRate" /\ a.ID = id)

\* the tick just executed lies in the k-th segment of variant v of trace t,
\* the segment specifies start, and the producer's rate at that tick is not
\* the interpolation from that start to the segment's target (at the
\* segment's beginning: the start itself)
offStart(t, v, k) ==
  LET id == idString(makeTraceID(t, v))
      dp == rateSegments(v.Timeline)[k]
      a == rateActions(id)[k]
      n == lastTick.tick
  IN  /\ dp.HasStart /\ a.At <= n /\ n < a.To
      /\ rateAt(traceProducers[id], n)
           # dp.Start + ((dp.Target - dp.Start) * (n - a.At)) \div (a.To - a.At)

\* C39: for a compiled trace variant, at every tick of a segment that
\* specifies start the producer's rate is the linear interpolation from that
\* start to the segment's target; at the segment's first tick it is the start.
C39_RateFromStart ==
  (pc \in {"running", "done"} /\ log # <<>>) =>
    \A doc \in sourceDocs : \A t \in Range(doc.traces) : \A v \in Range(t.Variants) :
      \A k \in DOMAIN rateSegments(v.Timeline) : ~offStart(t, v, k)

\* a directional normal-noise call with a standard deviation of 0 or less
\* returned 0 and made no draw
zeroDeviation ==
  (pc = "returned" /\ theCall.loop = "normal" /\ theCall.direction # "both"
     /\ theCall.stdDev <= 0)
    => theCall.out = 0 /\ theCall.draws = 0

\* C40: under a fair random source the sign-rejection loop of directional
\* normal noise, the running-product loop of Poisson sampling and the
\* half-normal rejection loop of the span jitter each return; and directional
\* normal noise with a standard deviation of 0 or less returns 0 without a
\* draw.
C40_LoopsReturn ==
  /\ [](pc \in {"normal", "knuth", "jitter"} => <>(pc = "returned"))
  /\ []zeroDeviation

\* a directional call with a positive standard deviation has returned a
\* value of its sign after a draw of the other sign was rejected
C40_Witness ==
  /\ pc = "returned"
  /\ theCall.loop = "normal" /\ theCall.direction = "negative" /\ theCall.stdDev > 0
  /\ theCall.draws >= 2 /\ theCall.out < 0
====
